---- MODULE Spec2Model ----
(***************************************************************************)
(* Model of the authenticated real-time delivery path of the               *)
(* realtime-messenger backend: JWT verification, the Socket.io handshake   *)
(* middleware and connection handler, the thread rooms, the                *)
(* messages.sendMessage tRPC procedure with its Prisma transaction and its *)
(* broadcast, the queries messages.getThreadMessages,                      *)
(* threads.getUserThreads and auth.getCurrentUser, and                     *)
(* threads.createThread.                                                   *)
(*                                                                         *)
(* Time is counted in hours (the token lifetime is '2h').  Socket.io       *)
(* rooms are modelled with the library's documented semantics: join adds   *)
(* the socket to a room, io.to(room).emit reaches every socket in the      *)
(* room, socket.to(room).emit reaches every socket in the room except the  *)
(* emitting one, and a socket leaves all its rooms when it disconnects.    *)
(***************************************************************************)
EXTENDS Integers, Sequences, FiniteSets, TLC

\* ---------------------------------------------------------------- bounds
MaxConns == 2
MaxReqs == 2
MaxTime == 2
MaxInbox == 2
MaxLogin == 0
MaxThreadId == 3

\* ------------------------------------------------------ program constants
\* jwt.ts:5  JWT_EXPIRES_IN = '2h'
JWT_EXPIRES_IN == 2
\* messages.ts:36  .max(2000, ...)
ContentMax == 2000
\* threads.ts:25  .max(50, ...)
UsernameMax == 50

JWT_SECRET == "server-secret"
ISSUER == "realtime-messenger"
AUDIENCE == "realtime-messenger-client"

\* seeded users (alice, bob, charlie) with their SERIAL ids
Users == {1, 2, 3}
username(u) == <<"alice", "bob", "charlie">>[u]
AuthUser(u) == [id |-> u, username |-> username(u)]
NoUser == [id |-> 0, username |-> ""]

ConnIds == 1..MaxConns
ReqIds == 1..MaxReqs
ThreadIds == {1, 2}

VARIABLES
    now,          \* wall clock, in hours
    threads,      \* Thread rows: id -> [createdAt, updatedAt]
    participants, \* ThreadParticipant rows: set of <<threadId, userId>>
    messages,     \* committed Message rows
    nextMsgId,    \* the messages.id SERIAL sequence
    sockets,      \* Socket.io sockets: connection id -> record
    rooms,        \* Socket.io adapter rooms: room name -> set of connection ids
    inbox,        \* events emitted to each socket, in order
    req,          \* tRPC requests in flight
    missed,       \* history: <<c, message id>> for each publish that found c closed
    commits,      \* history: the ids of the Message rows in the order of their commits
    query,        \* tRPC queries in flight (getThreadMessages, getUserThreads, getCurrentUser)
    treq,         \* createThread requests in flight
    nextThreadId, \* the threads.id SERIAL sequence
    browsers,     \* each user's browser: the auth-token cookie, the last login
                  \* response, and whether it has logged out since
    client        \* alice's ChatInterface on thread 1: its message list and what
                  \* it has taken from the network so far

vars == <<now, threads, participants, messages, nextMsgId, sockets, rooms, inbox, req, missed,
          commits, query, treq, nextThreadId, browsers, client>>

\* ------------------------------------------------------------------ tokens
NoToken == [kind |-> "none", userId |-> 0, username |-> "", iat |-> 0, exp |-> 0,
            key |-> "", iss |-> "", aud |-> ""]

generateToken(user, t) ==
    [kind |-> "jwt", userId |-> user.id, username |-> user.username,
     iat |-> t, exp |-> t + JWT_EXPIRES_IN, key |-> JWT_SECRET,
     iss |-> ISSUER, aud |-> AUDIENCE]

\* faulty variant: every valid token verifies to the first user
verifyTokenAsFirstUser(token, t) ==
    IF /\ token.kind = "jwt"
       /\ token.key = JWT_SECRET
       /\ token.iss = ISSUER
       /\ token.aud = AUDIENCE
       /\ t < token.exp
    THEN [id |-> 1, username |-> "alice"]
    ELSE NoUser

\* faulty variant: jwt.verify without the issuer and audience options
verifyTokenAnyIssuer(token, t) ==
    IF /\ token.kind = "jwt"
       /\ token.key = JWT_SECRET
       /\ t < token.exp
    THEN [id |-> token.userId, username |-> token.username]
    ELSE NoUser

\* jwt.verify throws on a malformed token, a bad signature, a wrong issuer
\* or audience, and when the clock has reached exp; the catch returns null.
verifyToken(token, t) ==
    IF /\ token.kind = "jwt"
       /\ token.key = JWT_SECRET
       /\ token.iss = ISSUER
       /\ token.aud = AUDIENCE
       /\ t < token.exp
    THEN [id |-> token.userId, username |-> token.username]
    ELSE NoUser

extractTokenFromCookies(cookie) == cookie

\* tokens a client can present: those the server issued at a login, and
\* tokens made without the server secret
ForgedToken == [generateToken(AuthUser(1), 0) EXCEPT !.key = "attacker-secret",
                                                     !.exp = MaxTime + 10]
GarbageToken == [NoToken EXCEPT !.kind = "garbage"]
IssuedTokens(t) == {generateToken(AuthUser(u), i) : u \in Users, i \in {j \in 0..MaxLogin : j <= t}}
ClientTokens(t) == IssuedTokens(t) \cup {ForgedToken, GarbageToken}

\* handshake credentials: [auth |-> handshake.auth.token, cookie |-> auth-token cookie]
Handshakes(t) ==
    {[auth |-> a, cookie |-> NoToken] : a \in ClientTokens(t) \cup {NoToken}}
    \cup {[auth |-> NoToken, cookie |-> k] : k \in ClientTokens(t)}
    \cup {[auth |-> ForgedToken, cookie |-> k] : k \in IssuedTokens(t)}

\* ------------------------------------------------------------- the store
Message(id, threadId, senderId, content, createdAt) ==
    [id |-> id, threadId |-> threadId, senderId |-> senderId,
     content |-> content, createdAt |-> createdAt]
NoMessage == Message(0, 0, 0, <<>>, 0)

\* threadParticipant.findUnique({ where: { threadId_userId } })
threadAccess(threadId, userId) == <<threadId, userId>> \in participants

\* the payload of a new_message event and of sendMessage's return value
Formatted(m, flag) ==
    [id |-> m.id, content |-> m.content, createdAt |-> m.createdAt,
     sender |-> AuthUser(m.senderId), isFromCurrentUser |-> flag,
     threadId |-> m.threadId]
NoPayload ==
    [id |-> 0, content |-> <<>>, createdAt |-> 0, sender |-> NoUser,
     isFromCurrentUser |-> FALSE, threadId |-> 0]

NewMessageEvent(threadId, payload) ==
    [type |-> "new_message", threadId |-> threadId, message |-> payload, user |-> NoUser]
UserJoinedEvent(threadId, user) ==
    [type |-> "user_joined_thread", threadId |-> threadId, message |-> NoPayload, user |-> user]

\* ------------------------------------------------------------ the sockets
threadRoom(threadId) == <<"thread", threadId>>
userRoom(userId) == <<"user", userId>>
RoomNames == {threadRoom(t) : t \in ThreadIds} \cup {userRoom(u) : u \in Users}

NoHandshake == [auth |-> NoToken, cookie |-> NoToken]
FreshSocket == [state |-> "none", user |-> NoUser, handshake |-> NoHandshake, err |-> ""]

\* emit an event to a set of sockets
Emit(box, targets, ev) ==
    [c \in ConnIds |-> IF c \in targets THEN Append(box[c], ev) ELSE box[c]]
HasRoom(targets) == \A c \in targets : Len(inbox[c]) < MaxInbox

\* faulty variant: the cookie first, auth.token only when there is no cookie
HandshakeTokenCookieFirst(h) ==
    IF extractTokenFromCookies(h.cookie).kind # "none"
    THEN extractTokenFromCookies(h.cookie)
    ELSE h.auth

\* auth.token first, the cookie only when auth.token is absent
HandshakeToken(h) ==
    IF h.auth.kind # "none" THEN h.auth ELSE extractTokenFromCookies(h.cookie)

\* faulty variant: admits the socket whatever its token
socketAuthMiddlewareAdmitAll(h, t) ==
    LET token == HandshakeToken(h) IN
    IF verifyToken(token, t) = NoUser
    THEN [state |-> "active", user |-> NoUser, handshake |-> h, err |-> ""]
    ELSE [state |-> "active", user |-> verifyToken(token, t), handshake |-> h, err |-> ""]

\* the socket that results from a handshake h at time t
socketAuthMiddleware(h, t) ==
    LET token == HandshakeToken(h) IN
    IF token.kind = "none"
    THEN [state |-> "refused", user |-> NoUser, handshake |-> h,
          err |-> "Authentication required"]
    ELSE IF verifyToken(token, t) = NoUser
    THEN [state |-> "refused", user |-> NoUser, handshake |-> h,
          err |-> "Invalid authentication token"]
    ELSE [state |-> "active", user |-> verifyToken(token, t), handshake |-> h, err |-> ""]

\* A handshake arrives: io.use(socketAuthMiddleware), then, only when the
\* middleware called next() without an error, io.on('connection'), which
\* joins the socket to its personal room.
Connect(c, h) ==
    /\ sockets[c].state = "none"
    /\ \A d \in ConnIds : d < c => sockets[d].state # "none"
    /\ LET s == socketAuthMiddleware(h, now) IN
       /\ sockets' = [sockets EXCEPT ![c] = s]
       /\ rooms' = IF s.state = "active"
                   THEN [rooms EXCEPT ![userRoom(s.user.id)] = @ \cup {c}]
                   ELSE rooms
    /\ UNCHANGED <<now, threads, participants, messages, nextMsgId, inbox, req, missed,
                   commits, query, treq, nextThreadId, browsers, client>>

\* faulty variant: the closed socket stays in its rooms
DisconnectKeepRooms(c) ==
    /\ sockets[c].state = "active"
    /\ sockets' = [sockets EXCEPT ![c].state = "closed"]
    /\ UNCHANGED <<now, threads, participants, messages, nextMsgId, inbox, req, missed, rooms,
                   commits, query, treq, nextThreadId, browsers, client>>

\* The transport closes (client disconnect or network loss): Socket.io takes
\* the socket out of every room, then runs the handler, which only logs.
Disconnect(c) ==
    /\ sockets[c].state = "active"
    /\ sockets' = [sockets EXCEPT ![c].state = "closed"]
    /\ rooms' = [r \in RoomNames |-> rooms[r] \ {c}]
    /\ UNCHANGED <<now, threads, participants, messages, nextMsgId, inbox, req, missed,
                   commits, query, treq, nextThreadId, browsers, client>>

\* faulty variant: joining a room also records the user as a participant
JoinThreadAddsParticipant(c, threadId) ==
    /\ sockets[c].state = "active"
    /\ LET roomName == threadRoom(threadId)
           others == rooms[roomName] \ {c} IN
       /\ HasRoom(others)
       /\ rooms' = [rooms EXCEPT ![roomName] = @ \cup {c}]
       /\ inbox' = Emit(inbox, others, UserJoinedEvent(threadId, sockets[c].user))
       /\ participants' = participants \cup {<<threadId, sockets[c].user.id>>}
    /\ UNCHANGED <<now, threads, messages, nextMsgId, sockets, req, missed,
                   commits, query, treq, nextThreadId, browsers, client>>

\* socket.on('join_thread'): socket.join(roomName), then
\* socket.to(roomName).emit('user_joined_thread', ...)
JoinThread(c, threadId) ==
    /\ sockets[c].state = "active"
    /\ LET roomName == threadRoom(threadId)
           others == rooms[roomName] \ {c} IN
       /\ HasRoom(others)
       /\ rooms' = [rooms EXCEPT ![roomName] = @ \cup {c}]
       /\ inbox' = Emit(inbox, others, UserJoinedEvent(threadId, sockets[c].user))
    /\ UNCHANGED <<now, threads, participants, messages, nextMsgId, sockets, req, missed,
                   commits, query, treq, nextThreadId, browsers, client>>

\* socket.on('broadcast_message'): relays the client's message object to
\* the room with socket.to(roomName).emit('new_message', ...)
BroadcastMessage(c, threadId, message) ==
    /\ sockets[c].state = "active"
    /\ LET roomName == threadRoom(threadId)
           others == rooms[roomName] \ {c} IN
       /\ HasRoom(others)
       /\ inbox' = Emit(inbox, others,
                         NewMessageEvent(threadId, [message EXCEPT !.isFromCurrentUser = FALSE]))
    /\ UNCHANGED <<now, threads, participants, messages, nextMsgId, sockets, rooms, req,
                   missed, commits, query, treq, nextThreadId, browsers, client>>

\* message objects a client may put into broadcast_message: the formatted
\* copy of a stored message, or one it made up
FakePayload(c) ==
    [id |-> 99, content |-> <<"x">>, createdAt |-> 0, sender |-> sockets[c].user,
     isFromCurrentUser |-> TRUE, threadId |-> 0]
ClientPayloads(c) ==
    {Formatted(m, TRUE) : m \in messages} \cup {FakePayload(c)}

Tick ==
    /\ now < MaxTime
    /\ now' = now + 1
    /\ UNCHANGED <<threads, participants, messages, nextMsgId, sockets, rooms, inbox, req,
                   missed, commits, query, treq, nextThreadId, browsers, client>>

\* ------------------------------------------------------- the request API
NoHeader == [scheme |-> "", token |-> NoToken]
Bearer(token) == [scheme |-> "Bearer ", token |-> token]

\* faulty variant: the token is decoded, not verified
createContextDecodeOnly(cookie, authorization, t) ==
    LET fromCookie == extractTokenFromCookies(cookie)
        token == IF fromCookie.kind = "none" /\ authorization.scheme = "Bearer "
                 THEN authorization.token
                 ELSE fromCookie
    IN IF token.kind = "jwt" THEN [id |-> token.userId, username |-> token.username]
       ELSE NoUser

\* ctx.user: the auth-token cookie when present, else a Bearer
\* authorization header, verified; null when there is no token or it fails
createContext(cookie, authorization, t) ==
    LET fromCookie == extractTokenFromCookies(cookie)
        token == IF fromCookie.kind = "none" /\ authorization.scheme = "Bearer "
                 THEN authorization.token
                 ELSE fromCookie
    IN IF token.kind # "none" THEN verifyToken(token, t) ELSE NoUser

\* message content is a sequence of characters
IsSpace(ch) == ch = " "
RECURSIVE TrimStart(_)
TrimStart(str) ==
    IF str # <<>> /\ IsSpace(Head(str)) THEN TrimStart(Tail(str)) ELSE str
RECURSIVE TrimEnd(_)
TrimEnd(str) ==
    IF str # <<>> /\ IsSpace(str[Len(str)]) THEN TrimEnd(SubSeq(str, 1, Len(str) - 1)) ELSE str
Trim(str) == TrimStart(TrimEnd(str))

\* z.string().min(1).max(2000).trim(): the two length checks see the
\* string as sent, the trim transforms what passed them
sendMessageSchemaOk(threadId, content) ==
    /\ threadId \in Int /\ threadId > 0
    /\ Len(content) >= 1
    /\ Len(content) <= ContentMax
sendMessageSchemaParse(content) == Trim(content)

Result(code, payload) == [code |-> code, message |-> payload]
NoResult == Result("", NoPayload)
NoTx == [message |-> NoMessage, updatedAt |-> 0, updated |-> FALSE]
IdleReq ==
    [pc |-> "idle", user |-> NoUser, threadId |-> 0, raw |-> <<>>, content |-> <<>>,
     io |-> FALSE, tx |-> NoTx, result |-> NoResult]

Finish(r, code, payload) ==
    [req EXCEPT ![r].pc = "done", ![r].tx = NoTx, ![r].result = Result(code, payload)]

\* A sendMessage call arrives: createContext, enforceUserIsAuthed, the input
\* schema; then the handler runs up to its first await.
SendMessageCall(r, cookie, authorization, threadId, content, io) ==
    /\ req[r].pc = "idle"
    /\ \A q \in ReqIds : q < r => req[q].pc # "idle"
    /\ LET user == createContext(cookie, authorization, now)
           call == [IdleReq EXCEPT !.user = user, !.threadId = threadId, !.raw = content,
                                   !.content = content, !.io = io]
       IN req' = IF user = NoUser
                 THEN [req EXCEPT ![r] = [IdleReq EXCEPT !.pc = "done",
                                              !.result = Result("UNAUTHORIZED", NoPayload)]]
                 ELSE IF ~sendMessageSchemaOk(threadId, content)
                 THEN [req EXCEPT ![r] = [call EXCEPT !.pc = "done",
                                              !.result = Result("BAD_REQUEST", NoPayload)]]
                 ELSE [req EXCEPT ![r] = [call EXCEPT !.pc = "authz",
                                              !.content = sendMessageSchemaParse(content)]]
    /\ UNCHANGED <<now, threads, participants, messages, nextMsgId, sockets, rooms, inbox,
                   missed, commits, query, treq, nextThreadId, browsers, client>>

\* faulty variant: no participation check
SendMessageAuthorizeSkip(r) ==
    /\ req[r].pc = "authz"
    /\ req' = [req EXCEPT ![r].pc = "txCreate"]
    /\ UNCHANGED <<now, threads, participants, messages, nextMsgId, sockets, rooms, inbox,
                   missed, commits, query, treq, nextThreadId, browsers, client>>

\* Step 1: the participation lookup returns
SendMessageAuthorize(r) ==
    /\ req[r].pc = "authz"
    /\ req' = IF threadAccess(req[r].threadId, req[r].user.id)
              THEN [req EXCEPT ![r].pc = "txCreate"]
              ELSE Finish(r, "FORBIDDEN", NoPayload)
    /\ UNCHANGED <<now, threads, participants, messages, nextMsgId, sockets, rooms, inbox,
                   missed, commits, query, treq, nextThreadId, browsers, client>>

\* The thread row is locked by a transaction that has updated it and has
\* not yet committed or rolled back.
ThreadLocked(threadId) ==
    \E q \in ReqIds : req[q].tx.updated /\ req[q].threadId = threadId

\* faulty variant: the row is written outside the transaction
TxCreateUnsafe(r) ==
    /\ req[r].pc = "txCreate"
    /\ LET m == Message(nextMsgId, req[r].threadId, req[r].user.id, req[r].content, now) IN
       /\ req' = [req EXCEPT ![r].pc = "txUpdate", ![r].tx.message = m]
       /\ messages' = messages \cup {m}
    /\ nextMsgId' = nextMsgId + 1
    /\ UNCHANGED <<now, threads, participants, sockets, rooms, inbox, missed, commits, query,
                   treq, nextThreadId, browsers, client>>

\* Step 2, inside $transaction: tx.message.create.  The row takes the next
\* id of the sequence and the insertion time; it is not visible to other
\* requests before the commit.
TxCreate(r) ==
    /\ req[r].pc = "txCreate"
    /\ req' = [req EXCEPT ![r].pc = "txUpdate",
                          ![r].tx.message = Message(nextMsgId, req[r].threadId,
                                                    req[r].user.id, req[r].content, now)]
    /\ nextMsgId' = nextMsgId + 1
    /\ UNCHANGED <<now, threads, participants, messages, sockets, rooms, inbox, missed,
                   commits, query, treq, nextThreadId, browsers, client>>

\* inside $transaction: tx.thread.update({ data: { updatedAt: new Date() } })
TxUpdate(r) ==
    /\ req[r].pc = "txUpdate"
    /\ ~ThreadLocked(req[r].threadId)
    /\ req' = [req EXCEPT ![r].pc = "txCommit", ![r].tx.updatedAt = now,
                          ![r].tx.updated = TRUE]
    /\ UNCHANGED <<now, threads, participants, messages, nextMsgId, sockets, rooms, inbox,
                   missed, commits, query, treq, nextThreadId, browsers, client>>

\* faulty variant: the commit applies the message without the updatedAt bump
TxCommitMessageOnly(r) ==
    /\ req[r].pc = "txCommit"
    /\ messages' = messages \cup {req[r].tx.message}
    /\ commits' = Append(commits, req[r].tx.message.id)
    /\ req' = [req EXCEPT ![r].pc = "broadcast", ![r].tx.updated = FALSE]
    /\ UNCHANGED <<now, participants, nextMsgId, sockets, rooms, inbox, missed, threads, query,
                   treq, nextThreadId, browsers, client>>

\* the transaction commits: both writes become visible together
TxCommit(r) ==
    /\ req[r].pc = "txCommit"
    /\ messages' = messages \cup {req[r].tx.message}
    /\ commits' = Append(commits, req[r].tx.message.id)
    /\ threads' = [threads EXCEPT ![req[r].threadId].updatedAt = req[r].tx.updatedAt]
    /\ req' = [req EXCEPT ![r].pc = "broadcast", ![r].tx.updated = FALSE]
    /\ UNCHANGED <<now, participants, nextMsgId, sockets, rooms, inbox, missed, query, treq,
                   nextThreadId, browsers, client>>

\* faulty variant: the failure ends the server process, and with it every
\* socket and every other request
TxAbortFatal(r) ==
    /\ req[r].pc \in {"txCreate", "txUpdate", "txCommit"}
    /\ req' = [q \in ReqIds |->
                 IF req[q].pc \in {"idle", "done"} THEN req[q]
                 ELSE [req[q] EXCEPT !.pc = "done", !.tx = NoTx,
                                     !.result = Result("INTERNAL_SERVER_ERROR", NoPayload)]]
    /\ sockets' = [c \in ConnIds |->
                     IF sockets[c].state = "active"
                     THEN [sockets[c] EXCEPT !.state = "closed"] ELSE sockets[c]]
    /\ rooms' = [room \in RoomNames |-> {}]
    /\ UNCHANGED <<now, threads, participants, messages, nextMsgId, inbox, missed, commits,
                   query, treq, nextThreadId, browsers, client>>

\* a statement of the transaction or its commit fails: rollback, and the
\* error leaves the procedure
TxAbort(r) ==
    /\ req[r].pc \in {"txCreate", "txUpdate", "txCommit"}
    /\ req' = Finish(r, "INTERNAL_SERVER_ERROR", NoPayload)
    /\ UNCHANGED <<now, threads, participants, messages, nextMsgId, sockets, rooms, inbox,
                   missed, commits, query, treq, nextThreadId, browsers, client>>

\* faulty variant: the author's copy is emitted to the room unchanged
PublishAsIs(box, members, threadId, formattedMessage) ==
    Emit(box, members, NewMessageEvent(threadId, formattedMessage))

\* ctx.io.to(roomName).emit('new_message', { threadId, message: {...formattedMessage, isFromCurrentUser: false} })
Publish(box, members, threadId, formattedMessage) ==
    Emit(box, members,
         NewMessageEvent(threadId, [formattedMessage EXCEPT !.isFromCurrentUser = FALSE]))

\* closed sockets that had received an event of the thread's room
Stale(threadId) ==
    {c \in ConnIds : /\ sockets[c].state = "closed"
                     /\ \E i \in 1..Len(inbox[c]) : inbox[c][i].threadId = threadId}

\* faulty variant: ctx.io is used without the guard, and the call fails
\* when it is absent
SendMessageBroadcastNeedsIo(r) ==
    /\ req[r].pc = "broadcast"
    /\ LET threadId == req[r].threadId
           formattedMessage == Formatted(req[r].tx.message, TRUE)
           members == IF req[r].io THEN rooms[threadRoom(threadId)] ELSE {}
       IN /\ HasRoom(members)
          /\ inbox' = Publish(inbox, members, threadId, formattedMessage)
          /\ missed' = missed \cup {<<c, formattedMessage.id>> : c \in Stale(threadId)}
          /\ req' = IF req[r].io THEN Finish(r, "OK", formattedMessage)
                    ELSE Finish(r, "INTERNAL_SERVER_ERROR", NoPayload)
    /\ UNCHANGED <<now, threads, participants, messages, nextMsgId, sockets, rooms, commits,
                   query, treq, nextThreadId, browsers, client>>

\* faulty variant: the publish leaves out the sockets whose handshake token
\* no longer verifies
SendMessageBroadcastToValid(r) ==
    /\ req[r].pc = "broadcast"
    /\ LET threadId == req[r].threadId
           formattedMessage == Formatted(req[r].tx.message, TRUE)
           members == IF req[r].io
                      THEN {c \in rooms[threadRoom(threadId)] :
                              verifyToken(HandshakeToken(sockets[c].handshake), now) # NoUser}
                      ELSE {}
       IN /\ HasRoom(members)
          /\ inbox' = Publish(inbox, members, threadId, formattedMessage)
          /\ missed' = missed \cup {<<c, formattedMessage.id>> : c \in Stale(threadId)}
          /\ req' = Finish(r, "OK", formattedMessage)
    /\ UNCHANGED <<now, threads, participants, messages, nextMsgId, sockets, rooms, commits,
                   query, treq, nextThreadId, browsers, client>>

\* faulty variant: the publish iterates over a room that is being updated
\* and misses its newest member
SendMessageBroadcastPartialRoom(r) ==
    /\ req[r].pc = "broadcast"
    /\ LET threadId == req[r].threadId
           formattedMessage == Formatted(req[r].tx.message, TRUE)
           room == rooms[threadRoom(threadId)]
           members == IF req[r].io THEN {c \in room : \E d \in room : d >= c /\ d # c} ELSE {}
       IN /\ HasRoom(members)
          /\ inbox' = Publish(inbox, members, threadId, formattedMessage)
          /\ missed' = missed \cup {<<c, formattedMessage.id>> : c \in Stale(threadId)}
          /\ req' = Finish(r, "OK", formattedMessage)
    /\ UNCHANGED <<now, threads, participants, messages, nextMsgId, sockets, rooms, commits,
                   query, treq, nextThreadId, browsers, client>>

\* Steps 3 and 4: format the committed row, broadcast it to the thread's
\* room when ctx.io is there, and return it.
SendMessageBroadcast(r) ==
    /\ req[r].pc = "broadcast"
    /\ LET threadId == req[r].threadId
           formattedMessage == Formatted(req[r].tx.message, TRUE)
           members == IF req[r].io THEN rooms[threadRoom(threadId)] ELSE {}
       IN /\ HasRoom(members)
          /\ inbox' = Publish(inbox, members, threadId, formattedMessage)
          /\ missed' = missed \cup {<<c, formattedMessage.id>> : c \in Stale(threadId)}
          /\ req' = Finish(r, "OK", formattedMessage)
    /\ UNCHANGED <<now, threads, participants, messages, nextMsgId, sockets, rooms, commits,
                   query, treq, nextThreadId, browsers, client>>

\* ------------------------------------------------------------ the queries
QueryIds == 1..MaxReqs

\* the sequences that list every row of S once
Listings(S) ==
    {s \in [1..Cardinality(S) -> S] : \A i, j \in 1..Cardinality(S) : i # j => s[i] # s[j]}

CreatedAtAsc(m1, m2) == m1.createdAt <= m2.createdAt

\* message.findMany({ where: { threadId }, orderBy: { createdAt: 'asc' } }):
\* rows that the sort key does not separate come in any order
findManyMessages(threadId) ==
    {s \in Listings({m \in messages : m.threadId = threadId}) :
        \A i, j \in 1..Len(s) : i < j => CreatedAtAsc(s[i], s[j])}

\* an entry of formattedMessages
FormattedForList(m, userId) ==
    [id |-> m.id, content |-> m.content, createdAt |-> m.createdAt,
     sender |-> AuthUser(m.senderId), isFromCurrentUser |-> (m.senderId = userId)]

getThreadMessagesSchemaOk(threadId) == threadId \in Int /\ threadId > 0

QueryResult(code) ==
    [code |-> code, threadId |-> 0, messages |-> <<>>, totalCount |-> 0,
     threads |-> <<>>, user |-> NoUser]
IdleQuery ==
    [pc |-> "idle", proc |-> "", user |-> NoUser, threadId |-> 0, result |-> QueryResult("")]

\* faulty variant: the procedure runs without an identity
QueryCallNoGuard(proc, user, threadId) ==
    [IdleQuery EXCEPT !.pc = "called", !.proc = proc, !.user = user, !.threadId = threadId]

\* the query slot after createContext and enforceUserIsAuthed
QueryCall(proc, user, threadId) ==
    IF user = NoUser
    THEN [IdleQuery EXCEPT !.pc = "done", !.proc = proc,
                           !.result = QueryResult("UNAUTHORIZED")]
    ELSE [IdleQuery EXCEPT !.pc = "called", !.proc = proc, !.user = user,
                           !.threadId = threadId]

QueryFree(q) ==
    /\ query[q].pc = "idle"
    /\ \A p \in QueryIds : p < q => query[p].pc # "idle"

\* A getThreadMessages call arrives: createContext, enforceUserIsAuthed, the
\* input schema; then the handler runs up to its first await.
GetThreadMessagesCall(q, cookie, authorization, threadId) ==
    /\ QueryFree(q)
    /\ LET call == QueryCall("getThreadMessages", createContext(cookie, authorization, now),
                             threadId)
       IN query' = IF call.pc = "done"
                   THEN [query EXCEPT ![q] = call]
                   ELSE IF ~getThreadMessagesSchemaOk(threadId)
                   THEN [query EXCEPT ![q] = [call EXCEPT !.pc = "done",
                                                  !.result = QueryResult("BAD_REQUEST")]]
                   ELSE [query EXCEPT ![q] = [call EXCEPT !.pc = "authz"]]
    /\ UNCHANGED <<now, threads, participants, messages, nextMsgId, sockets, rooms, inbox, req,
                   missed, commits, treq, nextThreadId, browsers, client>>

\* faulty variant: FORBIDDEN only for a thread that exists
GetThreadMessagesAuthorizeLeaky(q) ==
    /\ query[q].pc = "authz" /\ query[q].proc = "getThreadMessages"
    /\ query' = IF threadAccess(query[q].threadId, query[q].user.id)
                THEN [query EXCEPT ![q].pc = "find"]
                ELSE IF query[q].threadId \in DOMAIN threads
                THEN [query EXCEPT ![q].pc = "done", ![q].result = QueryResult("FORBIDDEN")]
                ELSE [query EXCEPT ![q].pc = "done", ![q].result = QueryResult("NOT_FOUND")]
    /\ UNCHANGED <<now, threads, participants, messages, nextMsgId, sockets, rooms, inbox, req,
                   missed, commits, treq, nextThreadId, browsers, client>>

\* faulty variant: the history is read without the participation lookup
GetThreadMessagesAuthorizeSkip(q) ==
    /\ query[q].pc = "authz" /\ query[q].proc = "getThreadMessages"
    /\ query' = [query EXCEPT ![q].pc = "find"]
    /\ UNCHANGED <<now, threads, participants, messages, nextMsgId, sockets, rooms, inbox, req,
                   missed, commits, treq, nextThreadId, browsers, client>>

\* Step 1: the participation lookup returns
GetThreadMessagesAuthorize(q) ==
    /\ query[q].pc = "authz" /\ query[q].proc = "getThreadMessages"
    /\ query' = IF threadAccess(query[q].threadId, query[q].user.id)
                THEN [query EXCEPT ![q].pc = "find"]
                ELSE [query EXCEPT ![q].pc = "done", ![q].result = QueryResult("FORBIDDEN")]
    /\ UNCHANGED <<now, threads, participants, messages, nextMsgId, sockets, rooms, inbox, req,
                   missed, commits, treq, nextThreadId, browsers, client>>

\* faulty variant: the listing leaves out the caller's own messages
GetThreadMessagesFindOthers(q) ==
    /\ query[q].pc = "find" /\ query[q].proc = "getThreadMessages"
    /\ \E rows \in findManyMessages(query[q].threadId) :
          LET theirs == SelectSeq(rows, LAMBDA m : m.senderId # query[q].user.id) IN
          query' = [query EXCEPT ![q].pc = "done",
                       ![q].result = [QueryResult("OK") EXCEPT
                           !.threadId = query[q].threadId,
                           !.messages = [i \in 1..Len(theirs) |->
                                            FormattedForList(theirs[i], query[q].user.id)],
                           !.totalCount = Len(theirs)]]
    /\ UNCHANGED <<now, threads, participants, messages, nextMsgId, sockets, rooms, inbox, req,
                   missed, commits, treq, nextThreadId, browsers, client>>

\* Steps 2 and 3: findMany returns the thread's rows ordered by createdAt,
\* and the handler formats and returns them.
GetThreadMessagesFind(q) ==
    /\ query[q].pc = "find" /\ query[q].proc = "getThreadMessages"
    /\ \E rows \in findManyMessages(query[q].threadId) :
          query' = [query EXCEPT ![q].pc = "done",
                       ![q].result = [QueryResult("OK") EXCEPT
                           !.threadId = query[q].threadId,
                           !.messages = [i \in 1..Len(rows) |->
                                            FormattedForList(rows[i], query[q].user.id)],
                           !.totalCount = Len(rows)]]
    /\ UNCHANGED <<now, threads, participants, messages, nextMsgId, sockets, rooms, inbox, req,
                   missed, commits, treq, nextThreadId, browsers, client>>

\* ---- getUserThreads
ThreadsOf(userId) == {t \in DOMAIN threads : threadAccess(t, userId)}
ParticipantsOf(t) == {u \in Users : threadAccess(t, u)}
ThreadRow(t) == [id |-> t, createdAt |-> threads[t].createdAt, updatedAt |-> threads[t].updatedAt]
UpdatedAtDesc(t1, t2) == t1.updatedAt >= t2.updatedAt

\* messages: { take: 1, orderBy: { createdAt: 'desc' } }
LastMessages(t) ==
    LET rows == {m \in messages : m.threadId = t} IN
    IF rows = {} THEN {NoMessage}
    ELSE {m \in rows : \A n \in rows : n.createdAt <= m.createdAt}

\* thread.participants.find(p => p.user.id !== userId)?.user
OtherParticipants(t, userId) ==
    LET others == ParticipantsOf(t) \ {userId} IN
    IF others = {} THEN {NoUser} ELSE {AuthUser(u) : u \in others}

\* an entry of threadsWithMetadata
ThreadWithMetadata(row, otherParticipant, lastMessage) ==
    [id |-> row.id, createdAt |-> row.createdAt, updatedAt |-> row.updatedAt,
     otherParticipant |-> otherParticipant,
     lastMessage |-> [id |-> lastMessage.id, content |-> lastMessage.content,
                      createdAt |-> lastMessage.createdAt,
                      sender |-> IF lastMessage = NoMessage THEN NoUser
                                 ELSE AuthUser(lastMessage.senderId)],
     participants |-> ParticipantsOf(row.id)]

\* faulty variant: the listing misses the orderBy
findManyThreadsUnordered(userId) ==
    LET mine == ThreadsOf(userId) IN
    {[i \in 1..Len(rows) |-> ThreadWithMetadata(rows[i], other[rows[i].id], last[rows[i].id])] :
        rows \in Listings({ThreadRow(t) : t \in mine}),
        other \in {f \in [mine -> {NoUser} \cup {AuthUser(u) : u \in Users}] :
                      \A t \in mine : f[t] \in OtherParticipants(t, userId)},
        last \in {f \in [mine -> messages \cup {NoMessage}] :
                      \A t \in mine : f[t] \in LastMessages(t)}}

\* thread.findMany({ where: { participants: { some: { userId } } },
\*                   orderBy: { updatedAt: 'desc' } }), transformed
findManyThreads(userId) ==
    LET mine == ThreadsOf(userId) IN
    {[i \in 1..Len(rows) |-> ThreadWithMetadata(rows[i], other[rows[i].id], last[rows[i].id])] :
        rows \in {s \in Listings({ThreadRow(t) : t \in mine}) :
                    \A i, j \in 1..Len(s) : i < j => UpdatedAtDesc(s[i], s[j])},
        other \in {f \in [mine -> {NoUser} \cup {AuthUser(u) : u \in Users}] :
                      \A t \in mine : f[t] \in OtherParticipants(t, userId)},
        last \in {f \in [mine -> messages \cup {NoMessage}] :
                      \A t \in mine : f[t] \in LastMessages(t)}}

\* A getUserThreads call arrives: createContext, enforceUserIsAuthed; then
\* the handler runs up to its await.
GetUserThreadsCall(q, cookie, authorization) ==
    /\ QueryFree(q)
    /\ LET call == QueryCall("getUserThreads", createContext(cookie, authorization, now), 0)
       IN query' = IF call.pc = "done"
                   THEN [query EXCEPT ![q] = call]
                   ELSE [query EXCEPT ![q] = [call EXCEPT !.pc = "find"]]
    /\ UNCHANGED <<now, threads, participants, messages, nextMsgId, sockets, rooms, inbox, req,
                   missed, commits, treq, nextThreadId, browsers, client>>

\* findMany returns, and the handler transforms and returns the rows
GetUserThreadsFind(q) ==
    /\ query[q].pc = "find" /\ query[q].proc = "getUserThreads"
    /\ \E list \in findManyThreads(query[q].user.id) :
          query' = [query EXCEPT ![q].pc = "done",
                       ![q].result = [QueryResult("OK") EXCEPT !.threads = list]]
    /\ UNCHANGED <<now, threads, participants, messages, nextMsgId, sockets, rooms, inbox, req,
                   missed, commits, treq, nextThreadId, browsers, client>>

\* ---- getCurrentUser: createContext, enforceUserIsAuthed, return ctx.user
GetCurrentUserCall(q, cookie, authorization) ==
    /\ QueryFree(q)
    /\ LET call == QueryCall("getCurrentUser", createContext(cookie, authorization, now), 0)
       IN query' = IF call.pc = "done"
                   THEN [query EXCEPT ![q] = call]
                   ELSE [query EXCEPT ![q] = [call EXCEPT !.pc = "done",
                                                  !.result = [QueryResult("OK") EXCEPT
                                                                 !.user = call.user]]]
    /\ UNCHANGED <<now, threads, participants, messages, nextMsgId, sockets, rooms, inbox, req,
                   missed, commits, treq, nextThreadId, browsers, client>>

\* ----------------------------------------------------------- createThread
TreqIds == 1..MaxReqs

\* createThreadSchema: z.string().min(1).max(50)
createThreadSchemaOk(targetUsername) ==
    Len(targetUsername) >= 1 /\ Len(targetUsername) <= UsernameMax

\* user.findUnique({ where: { username } })
findUniqueUser(name) ==
    IF \E u \in Users : username(u) = name
    THEN AuthUser(CHOOSE u \in Users : username(u) = name)
    ELSE NoUser

\* thread.findFirst({ where: { AND: [some current, some target, every in [current, target]] } })
findFirstThread(currentUserId, targetUserId) ==
    {t \in DOMAIN threads :
        /\ currentUserId \in ParticipantsOf(t)
        /\ targetUserId \in ParticipantsOf(t)
        /\ ParticipantsOf(t) \subseteq {currentUserId, targetUserId}}

ThreadResult(code) ==
    [code |-> code, id |-> 0, createdAt |-> 0, updatedAt |-> 0, otherParticipant |-> NoUser,
     participants |-> {}]
IdleTreq ==
    [pc |-> "idle", user |-> NoUser, targetUsername |-> "", targetUser |-> NoUser,
     after |-> {}, created |-> FALSE, result |-> ThreadResult("")]

\* the createThread calls that have returned
Returned == {r \in TreqIds : treq[r].pc = "done"}

\* A createThread call arrives: createContext, enforceUserIsAuthed, the input
\* schema; then the handler runs up to its first await.
CreateThreadCall(r, cookie, authorization, targetUsername) ==
    /\ treq[r].pc = "idle"
    /\ \A q \in TreqIds : q < r => treq[q].pc # "idle"
    /\ LET user == createContext(cookie, authorization, now)
           call == [IdleTreq EXCEPT !.user = user, !.targetUsername = targetUsername,
                                    !.after = Returned]
       IN treq' = IF user = NoUser
                  THEN [treq EXCEPT ![r] = [IdleTreq EXCEPT !.pc = "done",
                                                !.result = ThreadResult("UNAUTHORIZED")]]
                  ELSE IF ~createThreadSchemaOk(targetUsername)
                  THEN [treq EXCEPT ![r] = [call EXCEPT !.pc = "done",
                                                !.result = ThreadResult("BAD_REQUEST")]]
                  ELSE [treq EXCEPT ![r] = [call EXCEPT !.pc = "findUser"]]
    /\ UNCHANGED <<now, threads, participants, messages, nextMsgId, sockets, rooms, inbox, req,
                   missed, commits, query, nextThreadId, browsers, client>>

\* Steps 1 and 2: the target user lookup returns; NOT_FOUND without a row,
\* BAD_REQUEST when the target is the caller
CreateThreadFindUser(r) ==
    /\ treq[r].pc = "findUser"
    /\ LET targetUser == findUniqueUser(treq[r].targetUsername) IN
       treq' = IF targetUser = NoUser
               THEN [treq EXCEPT ![r].pc = "done", ![r].result = ThreadResult("NOT_FOUND")]
               ELSE IF targetUser.id = treq[r].user.id
               THEN [treq EXCEPT ![r].pc = "done", ![r].targetUser = targetUser,
                                 ![r].result = ThreadResult("BAD_REQUEST")]
               ELSE [treq EXCEPT ![r].pc = "findExisting", ![r].targetUser = targetUser]
    /\ UNCHANGED <<now, threads, participants, messages, nextMsgId, sockets, rooms, inbox, req,
                   missed, commits, query, nextThreadId, browsers, client>>

\* faulty variant: the lookup of an existing thread never finds one
CreateThreadFindExistingNone(r) ==
    /\ treq[r].pc = "findExisting"
    /\ treq' = [treq EXCEPT ![r].pc = "create"]
    /\ UNCHANGED <<now, threads, participants, messages, nextMsgId, sockets, rooms, inbox, req,
                   missed, commits, query, nextThreadId, browsers, client>>

\* Step 3: findFirst returns; an existing thread between the two users is
\* returned in the format of a new one
CreateThreadFindExisting(r) ==
    /\ treq[r].pc = "findExisting"
    /\ LET existing == findFirstThread(treq[r].user.id, treq[r].targetUser.id) IN
       IF existing = {}
       THEN treq' = [treq EXCEPT ![r].pc = "create"]
       ELSE \E t \in existing : \E other \in OtherParticipants(t, treq[r].user.id) :
               treq' = [treq EXCEPT ![r].pc = "done",
                           ![r].result = [ThreadResult("OK") EXCEPT
                               !.id = t, !.createdAt = threads[t].createdAt,
                               !.updatedAt = threads[t].updatedAt,
                               !.otherParticipant = other,
                               !.participants = ParticipantsOf(t)]]
    /\ UNCHANGED <<now, threads, participants, messages, nextMsgId, sockets, rooms, inbox, req,
                   missed, commits, query, nextThreadId, browsers, client>>

\* faulty variant: the new thread gets the caller's participant row only
CreateThreadCreateCallerOnly(r) ==
    /\ treq[r].pc = "create"
    /\ nextThreadId <= MaxThreadId
    /\ threads' = threads @@ (nextThreadId :> [createdAt |-> now, updatedAt |-> now])
    /\ participants' = participants \cup {<<nextThreadId, treq[r].user.id>>}
    /\ nextThreadId' = nextThreadId + 1
    /\ treq' = [treq EXCEPT ![r].pc = "done", ![r].created = TRUE,
                   ![r].result = [ThreadResult("OK") EXCEPT
                       !.id = nextThreadId, !.createdAt = now, !.updatedAt = now,
                       !.otherParticipant = treq[r].targetUser,
                       !.participants = {treq[r].user.id}]]
    /\ UNCHANGED <<now, messages, nextMsgId, sockets, rooms, inbox, req, missed, commits, query, browsers, client>>

\* Step 4: thread.create with the two nested participant rows, one
\* statement; the thread takes the next id of the sequence
CreateThreadCreate(r) ==
    /\ treq[r].pc = "create"
    /\ nextThreadId <= MaxThreadId
    /\ threads' = threads @@ (nextThreadId :> [createdAt |-> now, updatedAt |-> now])
    /\ participants' = participants \cup {<<nextThreadId, treq[r].user.id>>,
                                          <<nextThreadId, treq[r].targetUser.id>>}
    /\ nextThreadId' = nextThreadId + 1
    /\ treq' = [treq EXCEPT ![r].pc = "done", ![r].created = TRUE,
                   ![r].result = [ThreadResult("OK") EXCEPT
                       !.id = nextThreadId, !.createdAt = now, !.updatedAt = now,
                       !.otherParticipant = treq[r].targetUser,
                       !.participants = {treq[r].user.id, treq[r].targetUser.id}]]
    /\ UNCHANGED <<now, messages, nextMsgId, sockets, rooms, inbox, req, missed, commits, query, browsers, client>>

\* ------------------------------------------------------ login and logout
PasswordMax == 255
SeedPassword == "password123"

\* loginSchema: both strings .min(1), username .max(50), password .max(255)
loginSchemaOk(name, password) ==
    /\ Len(name) >= 1 /\ Len(name) <= UsernameMax
    /\ Len(password) >= 1 /\ Len(password) <= PasswordMax

\* bcrypt.compare(password, user.password): the seed script gives every
\* user the hash of the same password
bcryptCompare(password, user) == password = SeedPassword

\* a browser: its auth-token cookie, the code and the token of its last
\* login response, and whether it has called logout since
FreshBrowser == [cookie |-> NoToken, login |-> "", token |-> NoToken, loggedOut |-> FALSE]
LoggedIn(user, t) ==
    [cookie |-> generateToken(user, t), login |-> "OK", token |-> generateToken(user, t),
     loggedOut |-> FALSE]

\* auth.login from the browser b: on success the token goes into the
\* auth-token cookie and into the response
Login(b, name, password) ==
    /\ browsers' =
         IF ~loginSchemaOk(name, password)
         THEN [browsers EXCEPT ![b].login = "BAD_REQUEST"]
         ELSE IF findUniqueUser(name) = NoUser \/ ~bcryptCompare(password, findUniqueUser(name))
         THEN [browsers EXCEPT ![b].login = "UNAUTHORIZED"]
         ELSE [browsers EXCEPT ![b] = LoggedIn(findUniqueUser(name), now)]
    /\ UNCHANGED <<now, threads, participants, messages, nextMsgId, sockets, rooms, inbox, req,
                   missed, commits, query, treq, nextThreadId, client>>

\* auth.logout from the browser b: res.clearCookie('auth-token'), nothing else
Logout(b) ==
    /\ browsers' = [browsers EXCEPT ![b].cookie = NoToken, ![b].loggedOut = TRUE]
    /\ UNCHANGED <<now, threads, participants, messages, nextMsgId, sockets, rooms, inbox, req,
                   missed, commits, query, treq, nextThreadId, client>>

\* ------------------------------------------------------------- the client
\* ChatInterface of currentUser alice on thread 1, over socket 1: messages
\* is its list; seen counts the socket events it has handled, acked and
\* fetched are the sendMessage and getThreadMessages responses it has applied
MountedClient ==
    [user |-> AuthUser(1), thread |-> 1, conn |-> 1, messages |-> <<>>, seen |-> 0,
     acked |-> {}, fetched |-> {}]

\* the setMessages updater of the onMessage handler
onMessage(prev, data) ==
    IF \E i \in 1..Len(prev) : prev[i].id = data.message.id
    THEN prev
    ELSE Append(prev, data.message)

\* the next event of the socket reaches the client: new_message goes to the
\* onMessage handler, which takes it when it is of the open thread
ClientOnEvent ==
    /\ client.seen < Len(inbox[client.conn])
    /\ LET data == inbox[client.conn][client.seen + 1] IN
       client' = IF data.type = "new_message" /\ data.threadId = client.thread
                 THEN [client EXCEPT !.seen = @ + 1, !.messages = onMessage(@, data)]
                 ELSE [client EXCEPT !.seen = @ + 1]
    /\ UNCHANGED <<now, threads, participants, messages, nextMsgId, sockets, rooms, inbox, req,
                   missed, commits, query, treq, nextThreadId, browsers>>

\* sendMessageMutation.onSuccess: setMessages(prev => [...prev, sentMessage])
ClientOnSendSuccess(r) ==
    /\ req[r].pc = "done" /\ req[r].result.code = "OK"
    /\ req[r].user = client.user /\ req[r].threadId = client.thread
    /\ r \notin client.acked
    /\ client' = [client EXCEPT !.acked = @ \cup {r},
                                !.messages = Append(@, req[r].result.message)]
    /\ UNCHANGED <<now, threads, participants, messages, nextMsgId, sockets, rooms, inbox, req,
                   missed, commits, query, treq, nextThreadId, browsers>>

\* getThreadMessages.useQuery onSuccess: setMessages(data.messages)
ClientOnFetchSuccess(q) ==
    /\ query[q].pc = "done" /\ query[q].proc = "getThreadMessages"
    /\ query[q].result.code = "OK"
    /\ query[q].user = client.user /\ query[q].threadId = client.thread
    /\ q \notin client.fetched
    /\ client' = [client EXCEPT !.fetched = @ \cup {q},
                                !.messages = query[q].result.messages]
    /\ UNCHANGED <<now, threads, participants, messages, nextMsgId, sockets, rooms, inbox, req,
                   missed, commits, query, treq, nextThreadId, browsers>>

\* ------------------------------------------------------- the specification
\* the database after the seed script: alice, bob and charlie, thread 1
\* between alice and bob, and alice's first message in it
SeedMessage == Message(1, 1, 1, <<"h", "e", "y">>, 0)

Init ==
    /\ now = 0
    /\ threads = [t \in {1} |-> [createdAt |-> 0, updatedAt |-> 0]]
    /\ participants = {<<1, 1>>, <<1, 2>>}
    /\ messages = {SeedMessage}
    /\ nextMsgId = 2
    /\ sockets = [c \in ConnIds |-> FreshSocket]
    /\ rooms = [r \in RoomNames |-> {}]
    /\ inbox = [c \in ConnIds |-> <<>>]
    /\ req = [r \in ReqIds |-> IdleReq]
    /\ missed = {}
    /\ commits = <<SeedMessage.id>>
    /\ query = [q \in QueryIds |-> IdleQuery]
    /\ treq = [r \in TreqIds |-> IdleTreq]
    /\ nextThreadId = 2
    /\ browsers = [u \in Users |-> FreshBrowser]
    /\ client = MountedClient

\* ---- the whole system, with clients that hold valid tokens, within one hour
HonestHandshakes(t) == {[auth |-> a, cookie |-> NoToken] : a \in IssuedTokens(t)}
HonestCredentials(t) == {<<k, NoHeader>> : k \in IssuedTokens(t)}
\* index.ts hands the Socket.io server to every request context
IoWiring == {TRUE}
SeededThreads == {1}

Next ==
    \/ \E c \in ConnIds, h \in HonestHandshakes(now) : Connect(c, h)
    \/ \E c \in ConnIds : Disconnect(c)
    \/ \E c \in ConnIds, t \in SeededThreads : JoinThread(c, t)
    \/ \E c \in ConnIds, t \in SeededThreads : BroadcastMessage(c, t, FakePayload(c))
    \/ \E r \in ReqIds, cr \in HonestCredentials(now), t \in SeededThreads, io \in IoWiring :
          SendMessageCall(r, cr[1], cr[2], t, <<"h", "i">>, io)
    \/ \E r \in ReqIds : SendMessageAuthorize(r)
    \/ \E r \in ReqIds : TxCreate(r)
    \/ \E r \in ReqIds : TxUpdate(r)
    \/ \E r \in ReqIds : TxCommit(r)
    \/ \E r \in ReqIds : TxAbort(r)
    \/ \E r \in ReqIds : SendMessageBroadcast(r)

Spec == Init /\ [][Next]_vars

\* ---- the sockets alone, with every kind of handshake, over the hours
NextSockets ==
    \/ Tick
    \/ \E c \in ConnIds, h \in Handshakes(now) : Connect(c, h)
    \/ \E c \in ConnIds : Disconnect(c)
    \/ \E c \in ConnIds, t \in SeededThreads : JoinThread(c, t)
    \/ \E c \in ConnIds, t \in SeededThreads :
          \E m \in ClientPayloads(c) : BroadcastMessage(c, t, m)

SpecSockets == Init /\ [][NextSockets]_vars

\* ---- the request API alone, with every kind of request, over the hours
RequestCredentials(t) ==
    {<<k, NoHeader>> : k \in ClientTokens(t) \cup {NoToken}}
    \cup {<<NoToken, Bearer(k)>> : k \in IssuedTokens(t)}
LongContent == [i \in 1..(ContentMax + 1) |-> "a"]
RequestContents == {<<"h", "i">>, <<>>, <<" ">>, <<" ", "h">>, LongContent}

NextSend ==
    \/ Tick
    \/ \E r \in ReqIds, cr \in RequestCredentials(now), t \in ThreadIds,
          content \in RequestContents, io \in IoWiring :
          SendMessageCall(r, cr[1], cr[2], t, content, io)
    \/ \E r \in ReqIds : SendMessageAuthorize(r)
    \/ \E r \in ReqIds : TxCreate(r)
    \/ \E r \in ReqIds : TxUpdate(r)
    \/ \E r \in ReqIds : TxCommit(r)
    \/ \E r \in ReqIds : TxAbort(r)
    \/ \E r \in ReqIds : SendMessageBroadcast(r)

\* alice and bob are connected and both have joined the room of thread 1
SubscribedSocket(c) ==
    IF c \in {1, 2}
    THEN socketAuthMiddleware([auth |-> generateToken(AuthUser(c), 0), cookie |-> NoToken], 0)
    ELSE FreshSocket

InitSubscribed ==
    /\ now = 0
    /\ threads = [t \in {1} |-> [createdAt |-> 0, updatedAt |-> 0]]
    /\ participants = {<<1, 1>>, <<1, 2>>}
    /\ messages = {SeedMessage}
    /\ nextMsgId = 2
    /\ sockets = [c \in ConnIds |-> SubscribedSocket(c)]
    /\ rooms = [r \in RoomNames |->
                   IF r = threadRoom(1) THEN {1, 2}
                   ELSE IF r = userRoom(1) THEN {1}
                   ELSE IF r = userRoom(2) THEN {2}
                   ELSE {}]
    /\ inbox = [c \in ConnIds |-> <<>>]
    /\ req = [r \in ReqIds |-> IdleReq]
    /\ missed = {}
    /\ commits = <<SeedMessage.id>>
    /\ query = [q \in QueryIds |-> IdleQuery]
    /\ treq = [r \in TreqIds |-> IdleTreq]
    /\ nextThreadId = 2
    /\ browsers = [u \in Users |-> IF u \in {1, 2} THEN LoggedIn(AuthUser(u), 0)
                                   ELSE FreshBrowser]
    /\ client = MountedClient

SpecSend == InitSubscribed /\ [][NextSend]_vars

\* ---- sending, relaying and reading the history of thread 1, over the hours:
\* alice's socket stays and relays, bob's may close; alice and bob call
\* sendMessage and their transactions do not fail; bob reads the history once
ParticipantCredentials(t, threadId) ==
    {cr \in HonestCredentials(t) : threadAccess(threadId, cr[1].userId)}
ReaderCredentials(t) == {cr \in HonestCredentials(t) : cr[1].userId = 2}

NextHistory ==
    \/ Tick
    \/ \E c \in {2} : Disconnect(c)
    \/ \E c \in {1}, t \in SeededThreads : BroadcastMessage(c, t, FakePayload(c))
    \/ \E r \in ReqIds, t \in SeededThreads, io \in IoWiring :
          \E cr \in ParticipantCredentials(now, t) :
             SendMessageCall(r, cr[1], cr[2], t, <<"h", "i">>, io)
    \/ \E r \in ReqIds : SendMessageAuthorize(r)
    \/ \E r \in ReqIds : TxCreate(r)
    \/ \E r \in ReqIds : TxUpdate(r)
    \/ \E r \in ReqIds : TxCommit(r)
    \/ \E r \in ReqIds : SendMessageBroadcast(r)
    \/ \E q \in {1}, t \in SeededThreads, cr \in ReaderCredentials(now) :
          GetThreadMessagesCall(q, cr[1], cr[2], t)
    \/ \E q \in QueryIds : GetThreadMessagesAuthorize(q)
    \/ \E q \in QueryIds : GetThreadMessagesFind(q)

SpecHistory == InitSubscribed /\ [][NextHistory]_vars

\* ---- createThread alone, for every caller and target, over the hours
TargetUsernames == {"alice", "bob", "charlie", "nobody", ""}

NextThreads ==
    \/ Tick
    \/ \E r \in TreqIds, cr \in HonestCredentials(now), name \in TargetUsernames :
          CreateThreadCall(r, cr[1], cr[2], name)
    \/ \E r \in TreqIds : CreateThreadFindUser(r)
    \/ \E r \in TreqIds : CreateThreadFindExisting(r)
    \/ \E r \in TreqIds : CreateThreadCreate(r)

SpecThreads == Init /\ [][NextThreads]_vars

\* ---- the five protected procedures, one call of sendMessage, one query and
\* one createThread call, with every kind of credential, over the hours;
\* alice and bob are subscribed to thread 1
ApiCredentials(t) ==
    RequestCredentials(t) \cup {<<ForgedToken, Bearer(k)>> : k \in IssuedTokens(t)}
ApiThreadIds == ThreadIds \cup {0, MaxThreadId}
ApiTargets == {"charlie", "nobody"}

NextApi ==
    \/ Tick
    \/ \E r \in {1}, cr \in ApiCredentials(now), t \in ThreadIds, io \in IoWiring :
          SendMessageCall(r, cr[1], cr[2], t, <<"h", "i">>, io)
    \/ \E r \in ReqIds : SendMessageAuthorize(r)
    \/ \E r \in ReqIds : TxCreate(r)
    \/ \E r \in ReqIds : TxUpdate(r)
    \/ \E r \in ReqIds : TxCommit(r)
    \/ \E r \in ReqIds : TxAbort(r)
    \/ \E r \in ReqIds : SendMessageBroadcast(r)
    \/ \E q \in {1}, cr \in ApiCredentials(now), t \in ApiThreadIds :
          GetThreadMessagesCall(q, cr[1], cr[2], t)
    \/ \E q \in QueryIds : GetThreadMessagesAuthorize(q)
    \/ \E q \in QueryIds : GetThreadMessagesFind(q)
    \/ \E q \in {1}, cr \in ApiCredentials(now) : GetUserThreadsCall(q, cr[1], cr[2])
    \/ \E q \in QueryIds : GetUserThreadsFind(q)
    \/ \E q \in {1}, cr \in ApiCredentials(now) : GetCurrentUserCall(q, cr[1], cr[2])
    \/ \E r \in {1}, cr \in ApiCredentials(now), name \in ApiTargets :
          CreateThreadCall(r, cr[1], cr[2], name)
    \/ \E r \in TreqIds : CreateThreadFindUser(r)
    \/ \E r \in TreqIds : CreateThreadFindExisting(r)
    \/ \E r \in TreqIds : CreateThreadCreate(r)

SpecApi == InitSubscribed /\ [][NextApi]_vars

\* ---- token verification on both channels, with one credential per
\* handshake or request and every kind of token, over the hours
OtherIssuerToken == [generateToken(AuthUser(1), 0) EXCEPT !.iss = "other-service",
                                                          !.exp = MaxTime + 10]
OtherAudienceToken == [generateToken(AuthUser(1), 0) EXCEPT !.aud = "other-client",
                                                            !.exp = MaxTime + 10]
AnyTokens(t) == ClientTokens(t) \cup {OtherIssuerToken, OtherAudienceToken}
SingleHandshakes(t) ==
    {[auth |-> k, cookie |-> NoToken] : k \in AnyTokens(t)}
    \cup {[auth |-> NoToken, cookie |-> k] : k \in AnyTokens(t)}
SingleCredentials(t) ==
    {<<k, NoHeader>> : k \in AnyTokens(t)} \cup {<<NoToken, Bearer(k)>> : k \in AnyTokens(t)}

NextVerify ==
    \/ Tick
    \/ \E c \in ConnIds, h \in SingleHandshakes(now) : Connect(c, h)
    \/ \E c \in ConnIds : Disconnect(c)
    \/ \E q \in QueryIds, cr \in SingleCredentials(now) : GetCurrentUserCall(q, cr[1], cr[2])

SpecVerify == Init /\ [][NextVerify]_vars

\* ---- sending with and without subscribers: sockets connect, join the room
\* of thread 1 and close; a participant sends one message and a participant
\* reads the history.  createContext's io parameter is optional, so a
\* request context may come without the Socket.io server.
OptionalIo == {TRUE, FALSE}

NextDecoupled ==
    \/ \E c \in ConnIds, h \in HonestHandshakes(now) : Connect(c, h)
    \/ \E c \in ConnIds : Disconnect(c)
    \/ \E c \in ConnIds, t \in SeededThreads : JoinThread(c, t)
    \/ \E r \in {1}, t \in SeededThreads, io \in OptionalIo :
          \E cr \in ParticipantCredentials(now, t) :
             SendMessageCall(r, cr[1], cr[2], t, <<"h", "i">>, io)
    \/ \E r \in ReqIds : SendMessageAuthorize(r)
    \/ \E r \in ReqIds : TxCreate(r)
    \/ \E r \in ReqIds : TxUpdate(r)
    \/ \E r \in ReqIds : TxCommit(r)
    \/ \E r \in ReqIds : SendMessageBroadcast(r)
    \/ \E q \in {1}, t \in SeededThreads : \E cr \in ParticipantCredentials(now, t) :
          GetThreadMessagesCall(q, cr[1], cr[2], t)
    \/ \E q \in QueryIds : GetThreadMessagesAuthorize(q)
    \/ \E q \in QueryIds : GetThreadMessagesFind(q)

SpecDecoupled == Init /\ [][NextDecoupled]_vars

\* ---- the thread list: alice may open a thread with charlie, participants
\* send to their threads on two request slots, their transactions do not
\* fail, and alice or bob lists their threads, over the hours
ListCallers(t) == {cr \in HonestCredentials(t) : cr[1].userId \in {1, 2}}
ThreadOpeners(t) == {cr \in HonestCredentials(t) : cr[1].userId = 1}

NextList ==
    \/ Tick
    \/ \E r \in {1}, cr \in ThreadOpeners(now) : CreateThreadCall(r, cr[1], cr[2], "charlie")
    \/ \E r \in TreqIds : CreateThreadFindUser(r)
    \/ \E r \in TreqIds : CreateThreadFindExisting(r)
    \/ \E r \in TreqIds : CreateThreadCreate(r)
    \/ \E r \in ReqIds, t \in ThreadIds, io \in IoWiring :
          \E cr \in ParticipantCredentials(now, t) :
             SendMessageCall(r, cr[1], cr[2], t, <<"h", "i">>, io)
    \/ \E r \in ReqIds : SendMessageAuthorize(r)
    \/ \E r \in ReqIds : TxCreate(r)
    \/ \E r \in ReqIds : TxUpdate(r)
    \/ \E r \in ReqIds : TxCommit(r)
    \/ \E r \in ReqIds : SendMessageBroadcast(r)
    \/ \E q \in {1}, cr \in ListCallers(now) : GetUserThreadsCall(q, cr[1], cr[2])
    \/ \E q \in QueryIds : GetUserThreadsFind(q)

SpecList == Init /\ [][NextList]_vars

\* ---- login and logout within the hour: alice logs in and out in her
\* browser, opens sockets with the cookie alone or with the token of the
\* login response and joins the room of thread 1; bob sends one message
Browsers == {1}
LoginNames(b) == {username(b), "nobody"}
LoginPasswords == {SeedPassword, "wrong"}
BrowserHandshakes ==
    {[auth |-> NoToken, cookie |-> browsers[b].cookie] : b \in Browsers}
    \cup {[auth |-> browsers[b].token, cookie |-> browsers[b].cookie] : b \in Browsers}
SenderCredentials(t) == {cr \in HonestCredentials(t) : cr[1].userId = 2}

NextLogout ==
    \/ \E b \in Browsers, password \in LoginPasswords :
          \E name \in LoginNames(b) : Login(b, name, password)
    \/ \E b \in Browsers : Logout(b)
    \/ \E c \in ConnIds, h \in BrowserHandshakes : Connect(c, h)
    \/ \E c \in ConnIds : Disconnect(c)
    \/ \E c \in ConnIds, t \in SeededThreads : JoinThread(c, t)
    \/ \E r \in {1}, cr \in SenderCredentials(now), t \in SeededThreads, io \in IoWiring :
          SendMessageCall(r, cr[1], cr[2], t, <<"h", "i">>, io)
    \/ \E r \in ReqIds : SendMessageAuthorize(r)
    \/ \E r \in ReqIds : TxCreate(r)
    \/ \E r \in ReqIds : TxUpdate(r)
    \/ \E r \in ReqIds : TxCommit(r)
    \/ \E r \in ReqIds : SendMessageBroadcast(r)

SpecLogout == Init /\ [][NextLogout]_vars

\* ---- the chat window: alice and bob are subscribed to thread 1; alice's
\* client sends on slot 1, bob sends on slot 2, alice's client fetches the
\* history, and the responses and events reach her client in any order
ClientCredentials(t) == {cr \in HonestCredentials(t) : cr[1].userId = client.user.id}

NextClient ==
    \/ \E r \in {1}, cr \in ClientCredentials(now), io \in IoWiring :
          SendMessageCall(r, cr[1], cr[2], client.thread, <<"h", "i">>, io)
    \/ \E r \in {2}, cr \in SenderCredentials(now), io \in IoWiring :
          SendMessageCall(r, cr[1], cr[2], client.thread, <<"h", "i">>, io)
    \/ \E r \in ReqIds : SendMessageAuthorize(r)
    \/ \E r \in ReqIds : TxCreate(r)
    \/ \E r \in ReqIds : TxUpdate(r)
    \/ \E r \in ReqIds : TxCommit(r)
    \/ \E r \in ReqIds : SendMessageBroadcast(r)
    \/ \E q \in QueryIds, cr \in ClientCredentials(now) :
          GetThreadMessagesCall(q, cr[1], cr[2], client.thread)
    \/ \E q \in QueryIds : GetThreadMessagesAuthorize(q)
    \/ \E q \in QueryIds : GetThreadMessagesFind(q)
    \/ ClientOnEvent
    \/ \E r \in ReqIds : ClientOnSendSuccess(r)
    \/ \E q \in QueryIds : ClientOnFetchSuccess(q)

SpecClient == InitSubscribed /\ [][NextClient]_vars

\* ---- credential extraction: handshakes that carry an auth.token field, a
\* cookie, both or neither, and requests that carry a cookie, an
\* authorization header of either scheme, both or neither, over the hours
Basic(token) == [scheme |-> "Basic ", token |-> token]
ExtractTokens(t) == {k \in IssuedTokens(t) : k.userId \in {1, 2}} \cup {ForgedToken}
DualHandshakes(t) ==
    {[auth |-> a, cookie |-> k] : a, k \in ExtractTokens(t) \cup {NoToken}}
DualCredentials(t) ==
    {<<k, h>> : k \in ExtractTokens(t) \cup {NoToken},
                h \in {NoHeader} \cup {Bearer(x) : x \in ExtractTokens(t)}
                                 \cup {Basic(x) : x \in ExtractTokens(t)}}

NextExtract ==
    \/ Tick
    \/ \E c \in ConnIds, h \in DualHandshakes(now) : Connect(c, h)
    \/ \E c \in ConnIds : Disconnect(c)
    \/ \E q \in {1}, cr \in DualCredentials(now) : GetCurrentUserCall(q, cr[1], cr[2])

SpecExtract == Init /\ [][NextExtract]_vars

\* ---- every operation side by side: alice's browser logs in and out and
\* opens two sockets, of which the first joins thread rooms and the
\* second relays to them, and which close, while bob sends a
\* message, reads the history, lists his threads and opens a thread with
\* charlie, on one slot each
FrameThreads == ThreadIds

NextFrame ==
    \/ \E b \in Browsers : Login(b, username(b), SeedPassword)
    \/ \E b \in Browsers : Logout(b)
    \/ \E c \in ConnIds, h \in BrowserHandshakes : Connect(c, h)
    \/ \E c \in ConnIds : Disconnect(c)
    \/ \E c \in {1}, t \in FrameThreads : JoinThread(c, t)
    \/ \E c \in {2}, t \in FrameThreads : BroadcastMessage(c, t, FakePayload(c))
    \/ \E r \in {1}, cr \in SenderCredentials(now), t \in SeededThreads, io \in IoWiring :
          SendMessageCall(r, cr[1], cr[2], t, <<"h", "i">>, io)
    \/ \E r \in ReqIds : SendMessageAuthorize(r)
    \/ \E r \in ReqIds : TxCreate(r)
    \/ \E r \in ReqIds : TxUpdate(r)
    \/ \E r \in ReqIds : TxCommit(r)
    \/ \E r \in ReqIds : TxAbort(r)
    \/ \E r \in ReqIds : SendMessageBroadcast(r)
    \/ \E q \in {1}, cr \in SenderCredentials(now), t \in SeededThreads :
          GetThreadMessagesCall(q, cr[1], cr[2], t)
    \/ \E q \in QueryIds : GetThreadMessagesAuthorize(q)
    \/ \E q \in QueryIds : GetThreadMessagesFind(q)
    \/ \E q \in {1}, cr \in SenderCredentials(now) : GetUserThreadsCall(q, cr[1], cr[2])
    \/ \E q \in QueryIds : GetUserThreadsFind(q)
    \/ \E r \in {1}, cr \in SenderCredentials(now) : CreateThreadCall(r, cr[1], cr[2], "charlie")
    \/ \E r \in TreqIds : CreateThreadFindUser(r)
    \/ \E r \in TreqIds : CreateThreadFindExisting(r)
    \/ \E r \in TreqIds : CreateThreadCreate(r)

SpecFrame == Init /\ [][NextFrame]_vars

\* ================================================================= claims
InAnyRoom(c) == \E r \in RoomNames : c \in rooms[r]
NewMessages(c) == {i \in 1..Len(inbox[c]) : inbox[c][i].type = "new_message"}
Committed == {r \in ReqIds : req[r].pc = "broadcast" \/ req[r].result.code = "OK"}

\* the identity bound to c is the one its handshake token verifies to
Verified(c) ==
    LET token == HandshakeToken(sockets[c].handshake) IN
    /\ sockets[c].user.id \in Users
    /\ token.kind # "none"
    /\ \E t \in 0..now : verifyToken(token, t) = sockets[c].user

\* C1: no connection is admitted without a verified identity.  A handshake
\* with no token or with a token that fails verification ends refused, in
\* no room; every socket that is in a room, and every socket whose
\* join_thread or broadcast_message event is processed, has a bound
\* identity that its handshake token verified to.
C1_AdmittedOnlyVerified ==
    /\ [](\A c \in ConnIds :
            /\ (InAnyRoom(c) \/ sockets[c].state \in {"active", "closed"}) => Verified(c)
            /\ sockets[c].state \in {"none", "refused"} => ~InAnyRoom(c) /\ inbox[c] = <<>>)
    /\ [][\A c \in ConnIds :
            /\ (sockets[c].state = "none" /\ sockets'[c].state # "none") =>
                 LET token == HandshakeToken(sockets'[c].handshake) IN
                 IF token.kind = "none" \/ verifyToken(token, now) = NoUser
                 THEN sockets'[c].state = "refused" /\ sockets'[c].user = NoUser
                      /\ sockets'[c].err # "" /\ rooms' = rooms
                 ELSE sockets'[c].state = "active"
                      /\ sockets'[c].user = verifyToken(token, now)
            /\ (\E t \in ThreadIds :
                    \/ JoinThread(c, t)
                    \/ \E m \in ClientPayloads(c) : BroadcastMessage(c, t, m))
                 => sockets[c].state = "active" /\ Verified(c)]_vars

C1_Witness ==
    \E c, d \in ConnIds :
        /\ sockets[c].state = "active" /\ c \in rooms[threadRoom(1)]
        /\ sockets[d].state = "refused"
        /\ HandshakeToken(sockets[d].handshake) \in IssuedTokens(0)

\* C2: every member of a thread's room is bound to a participant of that
\* thread.
C2_RoomMembersParticipate ==
    \A t \in ThreadIds : \A c \in rooms[threadRoom(t)] :
        threadAccess(t, sockets[c].user.id)

\* C3: a new_message event of a thread is never delivered to a connection
\* whose identity is not a participant of that thread.
C3_DeliveredOnlyToParticipants ==
    \A c \in ConnIds : \A i \in NewMessages(c) :
        threadAccess(inbox[c][i].threadId, sockets[c].user.id)

\* C4: every delivered new_message event carries a message that is in the
\* store, with the same id, thread, content and sender.
C4_DeliveredIsCommitted ==
    \A c \in ConnIds : \A i \in NewMessages(c) :
        \E m \in messages :
            /\ m.threadId = inbox[c][i].threadId
            /\ inbox[c][i].message = Formatted(m, FALSE)

\* C5 as stated: every sendMessage call of an authenticated caller who is
\* not a participant of the thread ends with FORBIDDEN.
C5_EveryInputForbidden ==
    \A r \in ReqIds :
        (req[r].pc = "done" /\ req[r].user # NoUser
         /\ ~threadAccess(req[r].threadId, req[r].user.id))
        => req[r].result.code = "FORBIDDEN"

\* C5, amended: a sendMessage call whose input passes the schema, by a
\* caller who is not a participant of the thread, fails with FORBIDDEN; that
\* step creates no message, leaves the thread rows unchanged and emits
\* nothing, and such a call never reaches the transaction.  A call whose
\* input fails the schema ends with BAD_REQUEST before the participation
\* check, with the same absence of effects.
C5_NonParticipantForbidden ==
    /\ [](\A r \in ReqIds :
            /\ (req[r].pc \in {"txCreate", "txUpdate", "txCommit", "broadcast"}
                \/ req[r].result.code \in {"OK", "INTERNAL_SERVER_ERROR"})
               => threadAccess(req[r].threadId, req[r].user.id)
            /\ (req[r].pc = "done" /\ req[r].user # NoUser
                /\ ~threadAccess(req[r].threadId, req[r].user.id))
               => req[r].result.code =
                     IF sendMessageSchemaOk(req[r].threadId, req[r].raw)
                     THEN "FORBIDDEN" ELSE "BAD_REQUEST")
    /\ [][\A r \in ReqIds :
            (req[r].pc # "done" /\ req'[r].pc = "done" /\ req[r].user # NoUser
             /\ ~threadAccess(req'[r].threadId, req'[r].user.id))
            => /\ messages' = messages /\ threads' = threads
               /\ nextMsgId' = nextMsgId /\ inbox' = inbox]_vars

C5_Witness ==
    \E r \in ReqIds :
        /\ req[r].result.code = "FORBIDDEN"
        /\ req[r].user = AuthUser(3) /\ req[r].threadId = 1
        /\ rooms[threadRoom(1)] # {}

\* C6: a successful sendMessage has created exactly one Message row, of the
\* requested thread and with the caller's verified identity as sender, has
\* returned that row, and the thread's updatedAt is at or after the row's
\* createdAt.
C6_SendCreatesOneMessage ==
    /\ Cardinality(messages) = 1 + Cardinality(Committed)
    /\ \A r \in ReqIds : req[r].result.code = "OK" =>
         LET rows == {m \in messages : m.id = req[r].result.message.id} IN
         /\ Cardinality(rows) = 1
         /\ \A m \in rows :
              /\ m.threadId = req[r].threadId
              /\ m.senderId = req[r].user.id
              /\ m.content = req[r].content
              /\ req[r].result.message = Formatted(m, TRUE)
              /\ threads[m.threadId].updatedAt >= m.createdAt

C6_Witness ==
    \E r \in ReqIds :
        /\ req[r].result.code = "OK"
        /\ req[r].result.message.createdAt > 0
        /\ req[r].result.message.sender = AuthUser(2)

\* C7: the message and the bump of its thread's updatedAt become visible
\* together or not at all: every stored message that sendMessage created
\* has its thread's updatedAt at or after its createdAt, updatedAt moves
\* only together with a new message, the row of a transaction that has not
\* committed is not in the store, and a failed transaction changes nothing.
C7_MessageAndBumpAtomic ==
    /\ [](/\ \A m \in messages \ {SeedMessage} :
               threads[m.threadId].updatedAt >= m.createdAt
          /\ \A r \in ReqIds :
               req[r].pc \in {"txUpdate", "txCommit"} => req[r].tx.message \notin messages)
    /\ [][/\ threads' # threads => messages' # messages
          /\ messages' # messages =>
               \E m \in messages' \ messages :
                   /\ messages' = messages \cup {m}
                   /\ threads'[m.threadId].updatedAt >= m.createdAt
          /\ \A r \in ReqIds :
               (req[r].pc # "done" /\ req'[r].result.code = "INTERNAL_SERVER_ERROR")
               => messages' = messages /\ threads' = threads]_vars

C7_Witness ==
    \E r, q \in ReqIds :
        /\ req[r].pc = "txCommit" /\ req[r].tx.message.createdAt > 0
        /\ req[r].tx.message \notin messages
        /\ req[q].result.code = "INTERNAL_SERVER_ERROR"

C9_AuthorNeverSeesFalse ==
    \A r \in ReqIds : req[r].result.code = "OK" =>
        \A c \in ConnIds : sockets[c].user = req[r].user =>
            \A i \in NewMessages(c) :
                inbox[c][i].message.id = req[r].result.message.id
                => inbox[c][i].message.isFromCurrentUser

\* C10: a closed connection is in no room, nothing is delivered to it any
\* more, and a publish that finds it closed completes with the message
\* returned.
C10_DisconnectCleanup ==
    /\ [](\A c \in ConnIds : sockets[c].state = "closed" => ~InAnyRoom(c))
    /\ [][/\ \A c \in ConnIds : sockets[c].state = "closed" => inbox'[c] = inbox[c]
          /\ \A r \in ReqIds :
               (req[r].pc = "broadcast" /\ req'[r] # req[r] /\ Stale(req[r].threadId) # {})
               => req'[r].result.code = "OK"]_vars

C10_Witness ==
    \E p \in missed : \E r \in ReqIds :
        /\ sockets[p[1]].state = "closed"
        /\ req[r].result.code = "OK" /\ req[r].result.message.id = p[2]
        /\ \A i \in NewMessages(p[1]) : inbox[p[1]][i].message.id # p[2]

\* the place of a committed message in the order of the commits
CommitIndex(id) == CHOOSE i \in 1..Len(commits) : commits[i] = id
IsCommitted(id) == \E i \in 1..Len(commits) : commits[i] = id

\* C11: a connection that has received the new_message events of two
\* committed messages of the same thread has received them in the order in
\* which the two messages were committed.
C11_DeliveryInCommitOrder ==
    \A c \in ConnIds : \A i, j \in NewMessages(c) :
        (/\ i < j
         /\ inbox[c][i].threadId = inbox[c][j].threadId
         /\ IsCommitted(inbox[c][i].message.id)
         /\ IsCommitted(inbox[c][j].message.id))
        => CommitIndex(inbox[c][i].message.id) < CommitIndex(inbox[c][j].message.id)

\* the ids listed by a getThreadMessages result
Listed(result) == {result.messages[k].id : k \in 1..Len(result.messages)}
\* the step of query q in which findMany returns
Reads(q) ==
    query[q].proc = "getThreadMessages" /\ query[q].pc = "find" /\ query'[q].pc = "done"

\* C12: a getThreadMessages read of thread T by a participant lists every
\* message that a new_message event of T has carried to any connection
\* before the read, whether or not the reader's own connection was live or
\* subscribed then: no message is observable through the broadcast only.
C12_HistoryCoversDelivery ==
    [][\A q \in QueryIds : Reads(q) =>
          \A c \in ConnIds : \A i \in NewMessages(c) :
              inbox[c][i].threadId = query[q].threadId
              => inbox[c][i].message.id \in Listed(query'[q].result)]_vars

\* C13: a getThreadMessages read of thread T by a participant lists every
\* message that a sendMessage call to T has returned before the read, with
\* the id, content, createdAt and sender that sendMessage returned.
C13_SentIsListed ==
    [][\A q \in QueryIds : Reads(q) =>
          /\ query'[q].result.code = "OK"
          /\ \A r \in ReqIds :
               (req[r].result.code = "OK" /\ req[r].threadId = query[q].threadId) =>
               \E k \in 1..Len(query'[q].result.messages) :
                   LET listed == query'[q].result.messages[k]
                       sent == req[r].result.message
                   IN /\ listed.id = sent.id
                      /\ listed.content = sent.content
                      /\ listed.createdAt = sent.createdAt
                      /\ listed.sender = sent.sender]_vars

C13_Witness ==
    \E q \in QueryIds, r \in ReqIds :
        /\ query[q].result.code = "OK"
        /\ req[r].result.code = "OK" /\ req[r].user = query[q].user
        /\ req[r].result.message.createdAt > 0
        /\ req[r].result.message.id \in Listed(query[q].result)
        /\ query[q].result.totalCount = 3

\* C14: a getThreadMessages result lists the messages in their insertion
\* order, that is by ascending id, also among messages of equal createdAt.
C14_ListedInInsertionOrder ==
    \A q \in QueryIds : query[q].result.code = "OK" =>
        \A i, j \in 1..Len(query[q].result.messages) :
            i < j => query[q].result.messages[i].id < query[q].result.messages[j].id

\* the two users of a createThread call, and the threads between exactly them
PairOf(call) == {call.user.id, findUniqueUser(call.targetUsername).id}
ThreadsBetween(pair) == {t \in DOMAIN threads : ParticipantsOf(t) = pair}
\* call q was made after call r had returned a thread between the same two users
Repeats(q, r) ==
    /\ r \in treq[q].after
    /\ treq[r].result.code = "OK"
    /\ PairOf(treq[q]) = PairOf(treq[r])

NoValidToken(cr) ==
    verifyToken(cr[1], now) = NoUser /\ verifyToken(cr[2].token, now) = NoUser
\* the step changes no row, no sequence, no room and delivers no event
NoSideEffect ==
    /\ UNCHANGED <<threads, participants, messages, nextMsgId, nextThreadId, commits, browsers, client>>
    /\ UNCHANGED <<sockets, rooms, inbox>>

\* C16: a call of getThreadMessages, sendMessage, getUserThreads,
\* createThread or getCurrentUser that carries no token, or only tokens that
\* are malformed, forged or expired, ends at once with UNAUTHORIZED and
\* changes no row, no room and no inbox; a call inside a handler always has
\* an identity.
C16_ProtectedNeedIdentity ==
    /\ [](/\ \A r \in ReqIds : req[r].pc \notin {"idle", "done"} => req[r].user.id \in Users
          /\ \A q \in QueryIds : query[q].pc \notin {"idle", "done"} => query[q].user.id \in Users
          /\ \A r \in TreqIds : treq[r].pc \notin {"idle", "done"} => treq[r].user.id \in Users
          /\ \A q \in QueryIds : query[q].result.code = "OK" => query[q].user.id \in Users)
    /\ [][/\ \A r \in ReqIds : (req[r].pc = "idle" /\ req'[r] # req[r]) =>
               \A cr \in ApiCredentials(now), t \in ThreadIds, io \in IoWiring :
                  (NoValidToken(cr) /\ SendMessageCall(r, cr[1], cr[2], t, <<"h", "i">>, io))
                  => req'[r].result.code = "UNAUTHORIZED" /\ NoSideEffect
          /\ \A q \in QueryIds : (query[q].pc = "idle" /\ query'[q] # query[q]) =>
               \A cr \in ApiCredentials(now) :
                  (/\ NoValidToken(cr)
                   /\ \/ \E t \in ApiThreadIds : GetThreadMessagesCall(q, cr[1], cr[2], t)
                      \/ GetUserThreadsCall(q, cr[1], cr[2])
                      \/ GetCurrentUserCall(q, cr[1], cr[2]))
                  => query'[q].result.code = "UNAUTHORIZED" /\ NoSideEffect
          /\ \A r \in TreqIds : (treq[r].pc = "idle" /\ treq'[r] # treq[r]) =>
               \A cr \in ApiCredentials(now), name \in ApiTargets :
                  (NoValidToken(cr) /\ CreateThreadCall(r, cr[1], cr[2], name))
                  => treq'[r].result.code = "UNAUTHORIZED" /\ NoSideEffect]_vars

C16_Witness ==
    /\ now >= JWT_EXPIRES_IN
    /\ \E r \in ReqIds : req[r].result.code = "UNAUTHORIZED"
    /\ \E q \in QueryIds : query[q].result.code = "UNAUTHORIZED" /\ query[q].proc = "getUserThreads"
    /\ \E r \in TreqIds : treq[r].result.code = "UNAUTHORIZED"
    /\ rooms[threadRoom(1)] = {1, 2}

C18_OnlyValidContentPersists ==
    /\ \A m \in messages : Trim(m.content) # <<>> /\ Len(m.content) <= ContentMax
    /\ \A r \in ReqIds : req[r].result.code = "OK" =>
         Trim(req[r].raw) # <<>> /\ Len(req[r].raw) <= ContentMax

\* C19: a join_thread request by a connection whose identity is not a
\* participant of the thread delivers no event to any connection: every
\* user_joined_thread event in an inbox names a participant of its thread.
C19_UnauthorizedJoinIsSilent ==
    \A c \in ConnIds : \A i \in 1..Len(inbox[c]) :
        inbox[c][i].type = "user_joined_thread"
        => threadAccess(inbox[c][i].threadId, inbox[c][i].user.id)

\* C20: at every time from its issue up to its expiry, the token issued for
\* user u verifies to the identity with u's id and u's username, and a
\* socket admitted with that token is bound to that identity and to no other.
C20_TokenBindsIdentity ==
    /\ \A u \in Users, i \in 0..MaxLogin :
         (i <= now /\ now < i + JWT_EXPIRES_IN)
         => verifyToken(generateToken(AuthUser(u), i), now) = AuthUser(u)
    /\ \A c \in ConnIds : sockets[c].state \in {"active", "closed"} =>
         \A u \in Users, i \in 0..MaxLogin :
            HandshakeToken(sockets[c].handshake) = generateToken(AuthUser(u), i)
            => sockets[c].user = AuthUser(u)

C20_Witness ==
    \E c \in ConnIds :
        /\ sockets[c].state = "active"
        /\ sockets[c].handshake.cookie = generateToken(AuthUser(3), 0)
        /\ sockets[c].user = AuthUser(3)
        /\ now = JWT_EXPIRES_IN - 1


\* the cases in which jwt.verify throws
VerifyFails(token, t) ==
    \/ token.kind # "jwt"
    \/ token.key # JWT_SECRET
    \/ token.iss # ISSUER
    \/ token.aud # AUDIENCE
    \/ t >= token.exp

\* C21: verifyToken yields no identity, as a value, for a token that is
\* malformed, not signed with the server secret, made for another issuer or
\* audience, or verified at or after its expiry.  A handshake with such a
\* token ends refused as an invalid token (not as a failure of the
\* middleware), and a request with it is answered as unauthenticated.
C21_VerifyTokenFailsAsValue ==
    /\ [](\A token \in AnyTokens(now) : \A t \in 0..now :
            VerifyFails(token, t) => verifyToken(token, t) = NoUser)
    /\ [][/\ \A c \in ConnIds : \A h \in SingleHandshakes(now) :
               (Connect(c, h) /\ VerifyFails(HandshakeToken(h), now)) =>
                   /\ sockets'[c].state = "refused"
                   /\ sockets'[c].user = NoUser
                   /\ sockets'[c].err = "Invalid authentication token"
          /\ \A q \in QueryIds : \A cr \in SingleCredentials(now) :
               (GetCurrentUserCall(q, cr[1], cr[2])
                  /\ VerifyFails(IF cr[1].kind # "none" THEN cr[1] ELSE cr[2].token, now)) =>
                   /\ query'[q].result.code = "UNAUTHORIZED"
                   /\ query'[q].result.user = NoUser]_vars

C21_Witness ==
    /\ now >= JWT_EXPIRES_IN
    /\ sockets[1].state = "refused" /\ sockets[1].err = "Invalid authentication token"
    /\ HandshakeToken(sockets[1].handshake) = generateToken(AuthUser(2), 0)
    /\ sockets[2].state = "refused" /\ sockets[2].err = "Invalid authentication token"
    /\ HandshakeToken(sockets[2].handshake) = OtherIssuerToken
    /\ query[1].result.code = "UNAUTHORIZED"
    /\ query[2].result.code = "OK"

\* the one token of a request's credentials, and the handshake and the
\* request that present a given token alone
CredentialToken(cr) == IF cr[1].kind # "none" THEN cr[1] ELSE cr[2].token
HandshakeWith(token) == [auth |-> token, cookie |-> NoToken]
RequestWith(token) == <<token, NoHeader>>

C23_OnlyParticipantsRead ==
    /\ [](\A q \in QueryIds :
            (query[q].proc = "getThreadMessages") =>
                /\ query[q].pc = "find" => threadAccess(query[q].threadId, query[q].user.id)
                /\ (query[q].pc = "done" /\ query[q].result.code = "OK") =>
                      /\ threadAccess(query[q].threadId, query[q].user.id)
                      /\ \A i \in 1..Len(query[q].result.messages) :
                            \E m \in messages :
                               /\ m.threadId = query[q].threadId
                               /\ query[q].result.messages[i]
                                     = FormattedForList(m, query[q].user.id)
                /\ query[q].result.code # "OK" =>
                      query[q].result.messages = <<>> /\ query[q].result.totalCount = 0)
    /\ [][\A q \in QueryIds :
            (GetThreadMessagesAuthorize(q)
               /\ ~threadAccess(query[q].threadId, query[q].user.id)) =>
                /\ query'[q].pc = "done"
                /\ query'[q].result = QueryResult("FORBIDDEN")]_vars

\* bob reads thread 1 while another thread holds a message
C23_Witness ==
    \E q \in QueryIds :
        /\ query[q].proc = "getThreadMessages" /\ query[q].result.code = "OK"
        /\ query[q].threadId = 1
        /\ Len(query[q].result.messages) = 1
        /\ \E m \in messages : m.threadId = 2

\* nobody to deliver to: the thread's room is empty, or the request context
\* has no Socket.io server
NoSubscriber(r) == rooms[threadRoom(req[r].threadId)] = {} \/ ~req[r].io

\* C24: a participant's sendMessage whose publish finds no subscriber in the
\* thread's room, or no Socket.io server in its context, still returns the
\* committed message with OK; that step delivers no event to anyone, and a
\* getThreadMessages of the thread that reads afterwards lists the message.
\* No state of the sockets makes a participant's call fail.
C24_DeliveryDecoupled ==
    /\ [](\A r \in ReqIds : req[r].pc = "done" => req[r].result.code = "OK")
    /\ [][/\ \A r \in ReqIds :
               (SendMessageBroadcast(r) /\ NoSubscriber(r)) =>
                   /\ req'[r].pc = "done"
                   /\ req'[r].result = Result("OK", Formatted(req[r].tx.message, TRUE))
                   /\ req[r].tx.message \in messages'
                   /\ inbox' = inbox
                   /\ \A rows \in findManyMessages(req[r].threadId) :
                         \E i \in 1..Len(rows) : rows[i] = req[r].tx.message
          /\ \A q \in QueryIds : \A r \in ReqIds :
               (/\ GetThreadMessagesFind(q)
                /\ req[r].result.code = "OK"
                /\ req[r].threadId = query[q].threadId) =>
                   \E i \in 1..Len(query'[q].result.messages) :
                      query'[q].result.messages[i].id = req[r].result.message.id]_vars

\* alice is connected but nobody has joined the room; the message was sent,
\* nothing was delivered, and the history read afterwards lists it
C24_Witness ==
    /\ sockets[1].state = "active"
    /\ \A c \in ConnIds : inbox[c] = <<>>
    /\ rooms[threadRoom(1)] = {}
    /\ req[1].io /\ req[1].result.code = "OK"
    /\ query[1].result.code = "OK"
    /\ \E i \in 1..Len(query[1].result.messages) :
          query[1].result.messages[i].id = req[1].result.message.id

\* C25: whatever createThread calls have run, succeeded or failed, every
\* thread has participant rows for at least two distinct users, and every
\* participant row belongs to a thread and a user that exist.  (The rows
\* are a set: the primary key (thread_id, user_id) admits no pair twice.)
C25_ThreadsHaveTwoParticipants ==
    /\ \A t \in DOMAIN threads : Cardinality(ParticipantsOf(t)) >= 2
    /\ \A p \in participants : p[1] \in DOMAIN threads /\ p[2] \in Users
    /\ \A r \in TreqIds :
          (treq[r].pc = "done" /\ treq[r].result.code = "OK") =>
              /\ treq[r].result.id \in DOMAIN threads
              /\ Cardinality(treq[r].result.participants) = 2

C25_Witness ==
    \E r, q \in TreqIds :
        /\ treq[r].created /\ treq[r].result.code = "OK"
        /\ treq[q].result.code = "BAD_REQUEST"
        /\ treq[q].targetUser.id = treq[q].user.id
        /\ Cardinality(DOMAIN threads) = 2

\* C26 as stated: a createThread call whose target does not exist ends
\* NOT_FOUND, a call whose target is the caller ends CONFLICT, and neither
\* has created a thread or a participant row.
C26_NotFoundAndConflict ==
    \A r \in TreqIds :
        (/\ treq[r].pc = "done"
         /\ treq[r].user # NoUser
         /\ createThreadSchemaOk(treq[r].targetUsername)) =>
            LET targetUser == findUniqueUser(treq[r].targetUsername) IN
            /\ targetUser = NoUser =>
                  treq[r].result.code = "NOT_FOUND" /\ ~treq[r].created
            /\ targetUser.id = treq[r].user.id =>
                  treq[r].result.code = "CONFLICT" /\ ~treq[r].created

\* the message committed last among the threads of userId (NoMessage when
\* none of the committed messages is in one of them)
LastCommitted(userId) ==
    LET mine == {i \in 1..Len(commits) :
                    \E m \in messages : m.id = commits[i] /\ threadAccess(m.threadId, userId)}
    IN IF mine = {} THEN NoMessage
       ELSE LET last == CHOOSE i \in mine : \A j \in mine : j <= i
            IN CHOOSE m \in messages : m.id = commits[last]
LastCommittedThread(userId) == LastCommitted(userId).threadId

\* the sendMessage calls that have returned the message committed last
\* among the threads of userId
LastSends(userId) ==
    {r \in ReqIds : /\ req[r].result.code = "OK"
                    /\ req[r].result.message.id = LastCommitted(userId).id}

\* the list is exactly the caller's threads, latest updatedAt first
ListsOwnThreads(q) ==
    LET list == query'[q].result.threads
        userId == query[q].user.id
    IN /\ query'[q].result.code = "OK"
       /\ Len(list) = Cardinality(ThreadsOf(userId))
       /\ {list[i].id : i \in 1..Len(list)} = ThreadsOf(userId)
       /\ \A i \in 1..Len(list) : list[i].updatedAt = threads[list[i].id].updatedAt
       /\ \A i, j \in 1..Len(list) : i < j => list[i].updatedAt >= list[j].updatedAt

\* C27 as stated: getUserThreads lists exactly the caller's threads, latest
\* updatedAt first, and when a sendMessage to T has returned and no message
\* has been committed since to another thread of a participant, T is the
\* first entry of that participant's list.
C27_LastSentIsFirst ==
    [][\A q \in QueryIds :
         GetUserThreadsFind(q) =>
            /\ ListsOwnThreads(q)
            /\ LastSends(query[q].user.id) # {} =>
                  query'[q].result.threads[1].id = LastCommittedThread(query[q].user.id)]_vars

\* C27 amended: getUserThreads lists exactly the caller's threads, latest
\* updatedAt first; after a sendMessage to T has returned, T comes before
\* every thread of a participant's list whose updatedAt is earlier than T's.
C27_ListedByUpdatedAt ==
    [][\A q \in QueryIds :
         GetUserThreadsFind(q) =>
            /\ ListsOwnThreads(q)
            /\ \A r \in ReqIds :
                  (req[r].result.code = "OK" /\ threadAccess(req[r].threadId, query[q].user.id)) =>
                     LET list == query'[q].result.threads
                         T == req[r].threadId
                     IN \A i, j \in 1..Len(list) :
                           (list[i].id = T /\ list[j].updatedAt < threads[T].updatedAt)
                              => i < j]_vars

\* alice's list after she sent to thread 1 and then opened thread 2, which
\* has no message: thread 2 comes first
C27_Witness ==
    \E q \in QueryIds : \E r \in ReqIds :
        /\ query[q].proc = "getUserThreads" /\ query[q].result.code = "OK"
        /\ Len(query[q].result.threads) = 2
        /\ query[q].result.threads[1].id = 2
        /\ query[q].result.threads[1].updatedAt > query[q].result.threads[2].updatedAt
        /\ req[r].result.code = "OK" /\ req[r].threadId = 1
        /\ \A m \in messages : m.threadId = 1

\* the token that admitted c no longer verifies
TokenExpired(c) == verifyToken(HandshakeToken(sockets[c].handshake), now) = NoUser

C29_ExpiredTokenDropsSocket ==
    \A c \in ConnIds :
        (sockets[c].state \in {"active", "closed"} /\ TokenExpired(c)) =>
            /\ sockets[c].state = "closed"
            /\ \A i \in NewMessages(c) :
                  inbox[c][i].message.createdAt < HandshakeToken(sockets[c].handshake).exp

\* C30 as stated: once a browser's logout call has completed, and until it
\* logs in again, the sockets opened with the token of its last login
\* receive no event, and a handshake that presents that token is refused.
C30_LogoutRevokesSockets ==
    [][\A b \in Users :
         (/\ browsers[b].loggedOut /\ browsers'[b].loggedOut
          /\ browsers[b].token # NoToken) =>
            /\ \A c \in ConnIds :
                  HandshakeToken(sockets[c].handshake) = browsers[b].token =>
                      inbox'[c] = inbox[c]
            /\ \A c \in ConnIds : \A h \in BrowserHandshakes :
                  (Connect(c, h) /\ HandshakeToken(h) = browsers[b].token) =>
                      sockets'[c].state = "refused"]_vars

\* C31 as stated: a broadcast_message event makes a new_message reach the
\* room of a thread only when the socket that sent it is bound to a
\* participant of the thread, and the envelope's sender is that identity.
C31_RelayOnlyOwnMessages ==
    [][\A c \in ConnIds : \A t \in ThreadIds : \A m \in ClientPayloads(c) :
          (BroadcastMessage(c, t, m) /\ inbox' # inbox) =>
              /\ threadAccess(t, sockets[c].user.id)
              /\ m.sender = sockets[c].user]_vars

\* C32 as stated: at most one thread exists between two users, and two
\* createThread calls for the same pair that have both returned a thread,
\* whatever the interleaving of their steps, have returned the same id.
C32_OneThreadPerPair ==
    /\ \A u, v \in Users : u # v => Cardinality(ThreadsBetween({u, v})) <= 1
    /\ \A q, r \in TreqIds :
          (/\ treq[q].result.code = "OK" /\ treq[r].result.code = "OK"
           /\ PairOf(treq[q]) = PairOf(treq[r])) =>
              treq[q].result.id = treq[r].result.id

\* C33: when the transaction of a sendMessage call fails, that call ends
\* with an error and stays ended, so no event is published for it; the
\* step changes no Thread, ThreadParticipant or Message row, delivers
\* nothing, and leaves every other request, every socket and every room as
\* it was.  Every stored message has been committed.
C33_FailureAbortsOneRequest ==
    /\ [](\A m \in messages : \E i \in 1..Len(commits) : commits[i] = m.id)
    /\ [][\A r \in ReqIds :
            /\ TxAbort(r) =>
                 /\ req'[r].pc = "done"
                 /\ req'[r].result = Result("INTERNAL_SERVER_ERROR", NoPayload)
                 /\ \A q \in ReqIds \ {r} : req'[q] = req[q]
                 /\ UNCHANGED <<threads, participants, messages, commits>>
                 /\ UNCHANGED <<sockets, rooms, inbox>>
            /\ req[r].result.code = "INTERNAL_SERVER_ERROR" => req'[r] = req[r]]_vars

\* one call failed, a later one committed and was delivered to a socket
\* that is still subscribed
C33_Witness ==
    \E r, q \in ReqIds : \E c \in ConnIds :
        /\ req[r].result.code = "INTERNAL_SERVER_ERROR"
        /\ req[q].result.code = "OK"
        /\ req[q].result.message.id > nextMsgId - 2
        /\ sockets[c].state = "active" /\ c \in rooms[threadRoom(1)]
        /\ \E i \in NewMessages(c) : inbox[c][i].message.id = req[q].result.message.id

\* the ids of the entries of a message list
ShownIds(list) == {list[i].id : i \in 1..Len(list)}

\* C34 as stated: the client's message list for the thread never holds two
\* entries with the same message id, in whatever order the sendMessage
\* acknowledgement, the new_message event of the same message on the
\* sender's own socket and the history result reach the client
C34_NoDuplicateEntries ==
    \A i, j \in 1..Len(client.messages) :
        client.messages[i].id = client.messages[j].id => i = j

\* C35 as stated: a message shown in the client's list stays in it; in
\* particular applying a getThreadMessages result keeps a message whose
\* new_message event arrived after the server read the history
C35_ShownMessageStays ==
    [][\A q \in QueryIds :
          ClientOnFetchSuccess(q) =>
              ShownIds(client.messages) \subseteq ShownIds(client.messages')]_vars

\* the one source a handshake is judged by, and the one a request is judged by
FirstPresentOfHandshake(h) == IF h.auth.kind # "none" THEN h.auth ELSE h.cookie
FirstPresentOfRequest(cookie, authorization) ==
    IF cookie.kind # "none" THEN cookie
    ELSE IF authorization.scheme = "Bearer " THEN authorization.token
    ELSE NoToken
\* no instant at which the token verifies
NeverVerifies(token) == \A t \in 0..MaxTime : verifyToken(token, t) = NoUser

\* C36: credential extraction uses only the first present source.  A
\* handshake is admitted exactly when its auth.token field verifies, if it
\* has one, and exactly when its cookie verifies otherwise, and the socket
\* gets that token's identity; so a handshake whose explicit token is
\* invalid is refused whatever its cookie holds.  A request is
\* authenticated by its cookie when it has one and by its Bearer header
\* only when it has no cookie token.
C36_FirstPresentSource ==
    /\ [](\A c \in ConnIds :
             (/\ sockets[c].state # "none"
              /\ sockets[c].handshake.auth.kind # "none"
              /\ NeverVerifies(sockets[c].handshake.auth)) => sockets[c].state = "refused")
    /\ [][\A c \in ConnIds :
             (sockets[c].state = "none" /\ sockets'[c].state # "none") =>
                 LET user == verifyToken(FirstPresentOfHandshake(sockets'[c].handshake), now)
                 IN /\ sockets'[c].state = IF user = NoUser THEN "refused" ELSE "active"
                    /\ sockets'[c].user = user]_vars
    /\ [][\A q \in QueryIds : \A cr \in DualCredentials(now) :
             (query[q].pc = "idle" /\ GetCurrentUserCall(q, cr[1], cr[2])) =>
                 LET user == verifyToken(FirstPresentOfRequest(cr[1], cr[2]), now) IN
                 /\ query'[q].result.code = IF user = NoUser THEN "UNAUTHORIZED" ELSE "OK"
                 /\ query'[q].result.user = user]_vars

\* a handshake with a forged auth.token and an issued, unexpired cookie has
\* been refused, and a getCurrentUser call has been answered
C36_Witness ==
    /\ \E c \in ConnIds :
          /\ sockets[c].state = "refused"
          /\ sockets[c].handshake.auth = ForgedToken
          /\ verifyToken(sockets[c].handshake.cookie, now) # NoUser
    /\ \E q \in QueryIds : query[q].pc = "done" /\ query[q].result.code = "OK"

\* the connection holds a new_message event of the message
Received(c, id) ==
    \E i \in 1..Len(inbox[c]) :
        inbox[c][i].type = "new_message" /\ inbox[c][i].message.id = id

\* C37: a publish never sees a half-updated subscriber set.  The room of a
\* thread holds live connections only; a connection enters it by the step
\* of its join_thread request and leaves it by the step of its disconnect;
\* and the publish of a message appends one new_message event of it to the
\* inbox of every connection in the room at that instant and changes no
\* other inbox.  So a connection whose join completed before the publish
\* receives the event and one that disconnected before it does not.
C37_PublishSeesWholeRoom ==
    /\ [](\A t \in ThreadIds : \A c \in rooms[threadRoom(t)] : sockets[c].state = "active")
    /\ [][\A c \in ConnIds : \A t \in ThreadIds :
             /\ JoinThread(c, t) => c \in rooms'[threadRoom(t)]
             /\ (c \notin rooms[threadRoom(t)] /\ c \in rooms'[threadRoom(t)]) =>
                    JoinThread(c, t)
             /\ (c \in rooms[threadRoom(t)] /\ c \notin rooms'[threadRoom(t)]) =>
                    Disconnect(c)
             /\ Disconnect(c) => c \notin rooms'[threadRoom(t)]]_vars
    /\ [][\A r \in ReqIds :
             (req[r].pc = "broadcast" /\ req'[r].pc = "done" /\ req[r].io) =>
                 \A c \in ConnIds :
                     IF c \in rooms[threadRoom(req[r].threadId)]
                     THEN /\ Len(inbox'[c]) = Len(inbox[c]) + 1
                          /\ SubSeq(inbox'[c], 1, Len(inbox[c])) = inbox[c]
                          /\ inbox'[c][Len(inbox'[c])].type = "new_message"
                          /\ inbox'[c][Len(inbox'[c])].threadId = req[r].threadId
                          /\ inbox'[c][Len(inbox'[c])].message.id = req[r].tx.message.id
                     ELSE inbox'[c] = inbox[c]]_vars

\* a message has been published with one connection in the room, which
\* received it, after another connection of the room had disconnected,
\* which did not
C37_Witness ==
    \E r \in ReqIds : \E c, d \in ConnIds :
        /\ req[r].pc = "done" /\ req[r].result.code = "OK" /\ req[r].io
        /\ sockets[c].state = "active" /\ c \in rooms[threadRoom(req[r].threadId)]
        /\ Received(c, req[r].result.message.id)
        /\ sockets[d].state = "closed"
        /\ \E i \in 1..Len(inbox[d]) :
              inbox[d][i].type = "user_joined_thread" /\ inbox[d][i].threadId = req[r].threadId
        /\ ~Received(d, req[r].result.message.id)

\* the durable conversation state
ConversationRows == <<threads, participants, messages>>

\* C38: only sendMessage and createThread change durable conversation
\* state.  A step that changes a Thread, ThreadParticipation or Message row
\* is the commit of a sendMessage transaction or the create of createThread;
\* the steps of connection admission, join_thread, broadcast_message and
\* disconnect (they change sockets, rooms or inboxes), of login and logout
\* (they change the browser's cookie) and of getThreadMessages and
\* getUserThreads (they change the query) leave every row as it is; and no
\* step modifies or removes an existing Message.
C38_OnlySendAndCreateWrite ==
    /\ [][ConversationRows' # ConversationRows =>
             \/ \E r \in ReqIds : TxCommit(r)
             \/ \E r \in TreqIds : CreateThreadCreate(r)]_vars
    /\ [][(\/ sockets' # sockets \/ rooms' # rooms \/ inbox' # inbox
           \/ browsers' # browsers \/ query' # query) =>
             UNCHANGED ConversationRows]_vars
    /\ [][messages \subseteq messages']_vars

\* bob's message is stored and his thread with charlie exists, after alice
\* logged in, connected, joined, received a relayed event, disconnected and
\* logged out, and a query was answered
C38_Witness ==
    /\ Cardinality(messages) = 2
    /\ Cardinality(DOMAIN threads) = 2
    /\ browsers[1].loggedOut
    /\ sockets[1].state = "closed" /\ sockets[2].state = "closed"
    /\ \E i \in 1..Len(inbox[1]) : inbox[1][i].type = "new_message" /\ inbox[1][i].message.id = 99
    /\ query[1].pc = "done" /\ query[1].result.code = "OK"
====
